---- MODULE Spec2Model ----
(***************************************************************************)
(* Model of the Ali (DashScope) vendor adapter of controller/relay-ali.go: *)
(* the chat request translator requestOpenAI2Ali, the streaming relay      *)
(* aliStreamHandler (producer goroutine, consumer loop run by c.Stream)    *)
(* and the embedding translator embeddingResponseAli2OpenAI; and of the    *)
(* system-settings console SystemSetting (unnamed/part_000) that guards    *)
(* the PasswordLoginEnabled option with a warning dialog.                  *)
(*                                                                         *)
(* One behaviour is one call into the adapter; the variable `call` names   *)
(* the entry point the behaviour exercises.  Strings are TLA+ strings, so  *)
(* Len, SubSeq and \o are Go's len, slicing and concatenation (1-based).   *)
(***************************************************************************)
EXTENDS Integers, Sequences, FiniteSets, TLC

VARIABLES
    call,        \* "chat" | "stream" | "embedding": the entry point of this behaviour
    request,     \* GeneralOpenAIRequest.Messages handed to requestOpenAI2Ali
    aliRequest,  \* the *AliChatRequest it returned (Input.Prompt, Input.History)
    rpc,         \* "start" before requestOpenAI2Ali ran, "done" after
    \* aliStreamHandler
    body,              \* resp.Body: the bytes of the vendor's event stream
    unread,            \* the part of body the scanner has not consumed yet
    bodyClosed,        \* resp.Body.Close() was called (line 362)
    ppc,               \* producer goroutine: "scan" | "send" | "stop" | "exit"
    data,              \* producer's local data: the line scanned (319), the payload sent (326)
    hpc,               \* handler: "loop" | "select" | "process" | "close" | "returned"
    frame,             \* consumer's local data, the payload it received
    clientGone,        \* the client's connection is gone (CloseNotify fired)
    lastResponseText,  \* line 332
    usage,             \* line 301
    written,           \* what was rendered to the client, in order
    received,          \* ghost: the payloads the consumer received, in order
    accepted,          \* ghost: the payloads of the body's data frames, in line order
    ret,               \* the handler's return values
    \* embeddingResponseAli2OpenAI
    aliEmbedding,      \* the decoded AliEmbeddingResponse (Output.Embeddings, Usage)
    embedding,         \* the OpenAIEmbeddingResponse built from it (Data, Usage)
    epc,               \* "start" before embeddingResponseAli2OpenAI ran, "done" after
    \* aliHandler and aliEmbeddingHandler
    handler,           \* which of the two runs: "aliHandler" | "aliEmbeddingHandler"
    resp,              \* the vendor's *http.Response: StatusCode and the text of Body
    upc,               \* "read" | "decode" | "close" | "unmarshal" | "respond" | "returned"
    respClosed,        \* how many times resp.Body.Close() was called
    responseBody,      \* aliHandler's responseBody (line 371)
    vendorReply,       \* aliResponse of the two handlers: the decoded vendor reply
    cHeader,           \* what c.Writer.Header().Set and WriteHeader put on the response
    cWrites,           \* the c.Writer.Write calls, in order: the data and whether it failed
    uret,              \* the handler's return values
    faults,            \* ghost: the steps that failed: "read", "close", "decode", "write"
    \* aliTTSHandler
    req,               \* the TextToSpeechRequest
    socket,            \* the messages the vendor sends that were not read yet
    tpc,               \* "dial" | "send" | "read" | "forward" | "returned"
    connOpened,        \* the Dial of line 410 gave a connection
    connCloses,        \* how many times conn.Close() was called
    sent,              \* the messages written to the vendor with conn.WriteJSON
    audioData,         \* the binary message being forwarded: its ordinal and length
    chunkStart,        \* i of the loop of line 442
    audioWrites,       \* the c.Writer.Write calls, in order: the slice and whether it failed
    readLog,           \* ghost: the messages conn.ReadMessage returned, in order
    sawEOF,            \* ghost: conn.ReadMessage returned io.EOF
    ttsUsage,          \* usage of line 408
    tret,              \* the handler's return values
    \* SystemSetting (unnamed/part_000)
    inputs,            \* the inputs state of line 27: the option values the console shows
    showPasswordWarningModal,  \* line 66: the warning dialog is open
    loading,           \* line 64
    getPending,        \* the GET /api/option/ of getOptions awaits its response
    requests,          \* the PUT /api/option/ requests updateOption sent, in order;
                       \* via is a ghost: the handler that called updateOption
    pending,           \* the indices of the requests that await their response
    lastEvent          \* ghost: the event the last step handled

chatVars == <<request, aliRequest, rpc>>

streamVars == <<body, unread, bodyClosed, ppc, data, hpc, frame, clientGone,
                lastResponseText, usage, written, received, accepted, ret>>

embeddingVars == <<aliEmbedding, embedding, epc>>

unaryVars == <<handler, resp, upc, respClosed, responseBody, vendorReply,
               cHeader, cWrites, uret, faults>>

ttsVars == <<req, socket, tpc, connOpened, connCloses, sent, audioData, chunkStart,
             audioWrites, readLog, sawEOF, ttsUsage, tret>>

consoleVars == <<inputs, showPasswordWarningModal, loading, getPending, requests,
                 pending, lastEvent>>

vars == <<call, chatVars, streamVars, embeddingVars, unaryVars, ttsVars, consoleVars>>

----------------------------------------------------------------------------
(* Bounds *)

MaxMsgs == 5        \* longest request.Messages drawn

MaxLines == 3       \* most lines in a vendor body

MaxEmbeddings == 3  \* most embeddings in a vendor reply

MaxFrames == 3      \* most messages the vendor sends on the speech socket

MaxUpdates == 3     \* most update requests the console sends

(* Input alphabets *)

Roles == {"system", "user", "assistant"}

Contents == {"a", "b"}

\* A Message as requestOpenAI2Ali reads it: Role, and Content as the string
\* message.StringContent() yields.
MessageSet == [Role : Roles, Content : Contents]

\* all sequences over S of length 0..n
RECURSIVE SeqsUpTo(_, _)
SeqsUpTo(S, n) ==
    IF n = 0 THEN {<<>>}
    ELSE LET shorter == SeqsUpTo(S, n - 1)
         IN  shorter \cup {Append(s, x) : s \in {t \in shorter : Len(t) = n - 1}, x \in S}

----------------------------------------------------------------------------
(* requestOpenAI2Ali, relay-ali.go:141-177.                                 *)
(* Indices are 1-based: Go's request.Messages[i] is Messages[i + 1] here.   *)
(* Every AliMessage carries two ghost fields, uix and bix: the index of the *)
(* input message its User / Bot text was read from (0: from no message).    *)
(* promptIx is the same for Input.Prompt.                                   *)

\* line 142-143: messages := make(...); prompt := ""
EmptyAliInput == [Prompt |-> "", promptIx |-> 0, History |-> <<>>]

\* a priming pair that leaves the system message's text out
SystemPair_NoText(Messages, i) ==
    [User |-> "", Bot |-> "Okay", uix |-> 0, bix |-> 0]

\* lines 147-150: the pair appended for a system message
SystemPair(Messages, i) ==
    [User |-> Messages[i].Content, Bot |-> "Okay", uix |-> i, bix |-> 0]

\* the bot text read from message i instead of message i+1
TurnPair_BotIsUser(Messages, i) ==
    [User |-> Messages[i].Content, Bot |-> Messages[i].Content, uix |-> i, bix |-> i]

\* lines 157-160: the pair appended for a non-system, non-last message
TurnPair(Messages, i) ==
    [User |-> Messages[i].Content, Bot |-> Messages[i + 1].Content,
     uix |-> i, bix |-> i + 1]

\* line 153: i == len(request.Messages)-1
IsLastMessage(Messages, i) == i = Len(Messages)

\* the i++ of line 161 forgotten
NextAfterPair_NoSkip(i) == i + 1

\* the index advanced once too often after a pair
NextAfterPair_SkipTwo(i) == i + 3

\* line 161 (i++) followed by the loop's own i++ of line 144
NextAfterPair(i) == i + 2

\* a system message that also consumes the message after it
NextAfterSystem_SkipOne(i) == i + 2

\* line 151 (continue) followed by the loop's own i++ of line 144
NextAfterSystem(i) == i + 1

\* lines 144-163: the for loop, from index i with the accumulated result acc
RECURSIVE requestLoop(_, _, _)
requestLoop(Messages, i, acc) ==
    IF ~(i <= Len(Messages)) THEN acc
    ELSE IF Messages[i].Role = "system"
         THEN requestLoop(Messages, NextAfterSystem(i),
                  [acc EXCEPT !.History = Append(@, SystemPair(Messages, i))])
    ELSE IF IsLastMessage(Messages, i)
         THEN [acc EXCEPT !.Prompt = Messages[i].Content, !.promptIx = i]
    ELSE requestLoop(Messages, NextAfterPair(i),
                  [acc EXCEPT !.History = Append(@, TurnPair(Messages, i))])

\* lines 141-177: the AliInput of the returned AliChatRequest
requestOpenAI2Ali(Messages) == requestLoop(Messages, 1, EmptyAliInput)

----------------------------------------------------------------------------
(* The vendor's event stream *)

\* An AliChatResponse value (relay-ali.go:118-139)
AliChatResponse(text, finishReason, inputTokens, outputTokens, code, message, requestId) ==
    [Output |-> [Text |-> text, FinishReason |-> finishReason],
     Usage |-> [InputTokens |-> inputTokens, OutputTokens |-> outputTokens],
     Code |-> code, Message |-> message, RequestId |-> requestId]

\* The replies the vendor sends in a data frame: the JSON text, and the
\* AliChatResponse json.Unmarshal decodes it to (absent fields are zero).
VendorReplies ==
    { [json  |-> "{\"output\":{\"text\":\"Hel\",\"finish_reason\":\"null\"}}",
       value |-> AliChatResponse("Hel", "null", 0, 0, "", "", "")],
      [json  |-> "{\"output\":{\"text\":\"Hello\",\"finish_reason\":\"null\"}}",
       value |-> AliChatResponse("Hello", "null", 0, 0, "", "", "")],
      [json  |-> "{\"output\":{\"text\":\"Hello!\",\"finish_reason\":\"stop\"},\"usage\":{\"input_tokens\":3,\"output_tokens\":2}}",
       value |-> AliChatResponse("Hello!", "stop", 3, 2, "", "", "")],
      [json  |-> "{\"output\":{\"text\":\"Bye\"},\"usage\":{\"input_tokens\":3}}",
       value |-> AliChatResponse("Bye", "", 3, 0, "", "", "")],
      [json  |-> "{\"code\":\"Throttling\",\"message\":\"busy\",\"request_id\":\"r1\"}",
       value |-> AliChatResponse("", "", 0, 0, "Throttling", "busy", "r1")] }

\* The lines a vendor body is made of: data frames carrying a reply, a data
\* frame with an empty payload, a blank keep-alive and an event line.
BodyLines ==
    {"data:" \o r.json : r \in VendorReplies} \cup {"data:", "", "event:x"}

RECURSIVE JoinLines(_)
JoinLines(lines) ==
    IF lines = <<>> THEN ""
    ELSE IF Len(lines) = 1 THEN lines[1]
    ELSE lines[1] \o "\n" \o JoinLines(Tail(lines))

----------------------------------------------------------------------------
(* aliStreamHandler, relay-ali.go:300-367 *)

\* strings.Index(s, "\n") of line 307, 1-based; 0 when there is none
IndexNewline(s) ==
    LET hits == {i \in 1..Len(s) : SubSeq(s, i, i) = "\n"}
    IN  IF hits = {} THEN 0
        ELSE CHOOSE i \in hits : \A j \in hits : i <= j

\* a split function that discards what follows the last newline
ScanSplit_DropsRemainder(buf, atEOF) ==
    LET i == IndexNewline(buf)
    IN  IF atEOF /\ Len(buf) = 0
        THEN [advance |-> 0, hasToken |-> FALSE, token |-> ""]
        ELSE IF i > 0
        THEN [advance |-> i, hasToken |-> TRUE, token |-> SubSeq(buf, 1, i - 1)]
        ELSE [advance |-> 0, hasToken |-> FALSE, token |-> ""]

\* lines 303-314: the split function.  hasToken is Go's token != nil.
ScanSplit(buf, atEOF) ==
    LET i == IndexNewline(buf)
    IN  IF atEOF /\ Len(buf) = 0
        THEN [advance |-> 0, hasToken |-> FALSE, token |-> ""]
        ELSE IF i > 0
        THEN [advance |-> i, hasToken |-> TRUE, token |-> SubSeq(buf, 1, i - 1)]
        ELSE IF atEOF
        THEN [advance |-> Len(buf), hasToken |-> TRUE, token |-> buf]
        ELSE [advance |-> 0, hasToken |-> FALSE, token |-> ""]

\* line 318, scanner.Scan() with the rest of the body read into the buffer:
\* the split function is tried on the buffer and, when it asks for more and
\* the body is at its end, once more with atEOF.
ScannerScan(buf) ==
    LET first == ScanSplit(buf, FALSE)
    IN  IF first.hasToken THEN first ELSE ScanSplit(buf, TRUE)

\* a filter that wants something after the prefix
IsDataLine_LongerThanFive(line) == Len(line) > 5 /\ SubSeq(line, 1, 5) = "data:"

\* lines 320-325: the producer keeps a scanned line
IsDataLine(line) == Len(line) >= 5 /\ SubSeq(line, 1, 5) = "data:"

\* line 326: data = data[5:]
StripPrefix(line) == SubSeq(line, 6, Len(line))

\* line 337: json.Unmarshal([]byte(data), &aliResponse); on an error the
\* value is not used
Unmarshal(payload) ==
    IF \E r \in VendorReplies : r.json = payload
    THEN [err |-> FALSE, value |-> (CHOOSE r \in VendorReplies : r.json = payload).value]
    ELSE [err |-> TRUE, value |-> AliChatResponse("", "", 0, 0, "", "", "")]

\* strings.TrimPrefix of line 348
TrimPrefix(s, prefix) ==
    IF Len(s) >= Len(prefix) /\ SubSeq(s, 1, Len(prefix)) = prefix
    THEN SubSeq(s, Len(prefix) + 1, Len(s))
    ELSE s

\* a conversion that also leaves the finish reason unset when the vendor
\* sent none
streamResponseAli2OpenAI_EmptyUnset(aliResponse) ==
    [Id |-> aliResponse.RequestId,
     Content |-> aliResponse.Output.Text,
     FinishReason |-> IF aliResponse.Output.FinishReason \notin {"null", ""}
                      THEN <<aliResponse.Output.FinishReason>> ELSE <<>>]

\* lines 283-298: streamResponseAli2OpenAI; FinishReason is <<>> for a nil
\* pointer and <<reason>> for a set one
streamResponseAli2OpenAI(aliResponse) ==
    [Id |-> aliResponse.RequestId,
     Content |-> aliResponse.Output.Text,
     FinishReason |-> IF aliResponse.Output.FinishReason # "null"
                      THEN <<aliResponse.Output.FinishReason>> ELSE <<>>]

ZeroUsage == [PromptTokens |-> 0, CompletionTokens |-> 0, TotalTokens |-> 0]

NoReturn == [returned |-> FALSE, err |-> "", status |-> 0, hasUsage |-> FALSE, usage |-> ZeroUsage]

\* the client-facing frames: a chunk, and the terminal "data: [DONE]"
\* (src is a ghost: the ordinal of the received frame a chunk was made from)
ChunkFrame(response, src) ==
    [kind |-> "chunk", Content |-> response.Content,
     FinishReason |-> response.FinishReason, src |-> src]

DoneFrame == [kind |-> "done", Content |-> "[DONE]", FinishReason |-> <<>>, src |-> 0]

----------------------------------------------------------------------------
(* embeddingResponseAli2OpenAI, relay-ali.go:242-258 *)

\* vectors, in tenths: <<1, 2>> is [.1, .2]
Vectors == {<<1, 2>>, <<9>>, <<5>>}

\* the AliEmbedding values a reply is made of (relay-ali.go:105-108)
AliEmbeddingSet == [Embedding : Vectors, TextIndex : 0..(MaxEmbeddings - 1)]

TotalTokenCounts == {0, 7}

\* an item numbered 0 whatever the vendor's text_index
EmbeddingItem_IndexZero(item) ==
    [Object |-> "embedding", Index |-> 0, Embedding |-> item.Embedding]

\* lines 251-255: the item appended for one vendor embedding
EmbeddingItem(item) ==
    [Object |-> "embedding", Index |-> item.TextIndex, Embedding |-> item.Embedding]

\* lines 250-256: the loop over response.Output.Embeddings, in array order
RECURSIVE embeddingLoop(_, _)
embeddingLoop(Embeddings, Data) ==
    IF Embeddings = <<>> THEN Data
    ELSE embeddingLoop(Tail(Embeddings), Append(Data, EmbeddingItem(Head(Embeddings))))

\* lines 242-258
embeddingResponseAli2OpenAI(response) ==
    [Object |-> "list",
     Data |-> embeddingLoop(response.Output.Embeddings, <<>>),
     Model |-> "text-embedding-v1",
     Usage |-> [PromptTokens |-> 0, CompletionTokens |-> 0,
                TotalTokens |-> response.Usage.TotalTokens]]

NoEmbedding ==
    [Object |-> "", Data |-> <<>>, Model |-> "", Usage |-> ZeroUsage]

NoAliEmbedding == [Output |-> [Embeddings |-> <<>>], Usage |-> [TotalTokens |-> 0]]

----------------------------------------------------------------------------
(* The chat call: the router hands a request to requestOpenAI2Ali. *)

ChatIdle ==
    /\ request = <<>>
    /\ aliRequest = EmptyAliInput
    /\ rpc = "start"

StreamIdle ==
    /\ body = ""
    /\ unread = ""
    /\ bodyClosed = FALSE
    /\ ppc = "exit"
    /\ data = ""
    /\ hpc = "returned"
    /\ frame = ""
    /\ clientGone = FALSE
    /\ lastResponseText = ""
    /\ usage = ZeroUsage
    /\ written = <<>>
    /\ received = <<>>
    /\ accepted = <<>>
    /\ ret = NoReturn

EmbeddingIdle ==
    /\ aliEmbedding = NoAliEmbedding
    /\ embedding = NoEmbedding
    /\ epc = "start"

\* the nil error and the nil usage of a return statement
NoError ==
    [isNil |-> TRUE, Message |-> "", Type |-> "", Param |-> "", Code |-> "", StatusCode |-> 0]

NoUnaryReturn == [returned |-> FALSE, err |-> NoError, hasUsage |-> FALSE, usage |-> ZeroUsage]

NoHeader == [written |-> FALSE, ContentType |-> "", StatusCode |-> 0]

UnaryIdle ==
    /\ handler = ""
    /\ resp = [StatusCode |-> 0, Body |-> ""]
    /\ upc = "returned"
    /\ respClosed = 0
    /\ responseBody = ""
    /\ vendorReply = AliChatResponse("", "", 0, 0, "", "", "")
    /\ cHeader = NoHeader
    /\ cWrites = <<>>
    /\ uret = NoUnaryReturn
    /\ faults = {}

\* lines 27-62: the initial inputs, of which the model keeps two switches
\* and one text field
EmptyInputs ==
    [PasswordLoginEnabled |-> "", PasswordRegisterEnabled |-> "", ServerAddress |-> ""]

NoEvent == [kind |-> "", name |-> "", request |-> 0, success |-> FALSE]

ConsoleIdle ==
    /\ inputs = EmptyInputs
    /\ showPasswordWarningModal = FALSE
    /\ loading = FALSE
    /\ getPending = FALSE
    /\ requests = <<>>
    /\ pending = {}
    /\ lastEvent = NoEvent

NoTTSRequest == [Model |-> "", Input |-> "", ResponseFormat |-> "", Speed |-> 0]

NoAudio == [ord |-> 0, size |-> 0]

TTSIdle ==
    /\ req = NoTTSRequest
    /\ socket = <<>>
    /\ tpc = "returned"
    /\ connOpened = FALSE
    /\ connCloses = 0
    /\ sent = <<>>
    /\ audioData = NoAudio
    /\ chunkStart = 0
    /\ audioWrites = <<>>
    /\ readLog = <<>>
    /\ sawEOF = FALSE
    /\ ttsUsage = ZeroUsage
    /\ tret = NoUnaryReturn

InitChat ==
    /\ call = "chat"
    /\ UnaryIdle
    /\ TTSIdle
    /\ ConsoleIdle
    /\ request \in SeqsUpTo(MessageSet, MaxMsgs)
    /\ aliRequest = EmptyAliInput
    /\ rpc = "start"
    /\ StreamIdle
    /\ EmbeddingIdle

\* the call of requestOpenAI2Ali on the request
TranslateRequest ==
    /\ call = "chat"
    /\ rpc = "start"
    /\ aliRequest' = requestOpenAI2Ali(request)
    /\ rpc' = "done"
    /\ UNCHANGED <<call, consoleVars, request, streamVars, embeddingVars, unaryVars, ttsVars>>

----------------------------------------------------------------------------
(* The streamed call: aliStreamHandler, relay-ali.go:300-367.               *)
(* The state after lines 301-332: scanner and channels made, the producer   *)
(* goroutine started, headers set, lastResponseText empty; c.Stream is      *)
(* about to run its loop.                                                   *)

\* the lines scanner.Scan() yields for a whole body, in order (line 318)
RECURSIVE ScannedLines(_)
ScannedLines(buf) ==
    LET r == ScannerScan(buf)
    IN  IF r.hasToken
        THEN <<r.token>> \o ScannedLines(SubSeq(buf, r.advance + 1, Len(buf)))
        ELSE <<>>

\* the payloads the filter of lines 320-326 keeps of these lines, in order
RECURSIVE PayloadsOf(_)
PayloadsOf(lines) ==
    IF lines = <<>> THEN <<>>
    ELSE (IF IsDataLine(Head(lines)) THEN <<StripPrefix(Head(lines))>> ELSE <<>>)
             \o PayloadsOf(Tail(lines))

InitStream ==
    /\ UnaryIdle
    /\ TTSIdle
    /\ ConsoleIdle
    /\ call = "stream"
    /\ ChatIdle
    /\ EmbeddingIdle
    /\ body \in {JoinLines(lines) : lines \in SeqsUpTo(BodyLines, MaxLines)}
    /\ unread = body
    /\ bodyClosed = FALSE
    /\ ppc = "scan"
    /\ data = ""
    /\ hpc = "loop"
    /\ frame = ""
    /\ clientGone = FALSE
    /\ lastResponseText = ""
    /\ usage = ZeroUsage
    /\ written = <<>>
    /\ received = <<>>
    /\ accepted = PayloadsOf(ScannedLines(body))
    /\ ret = NoReturn

\* a producer that clears the consumer's tracker for every line it scans
ProducerScan_ClearsTracker ==
    /\ call = "stream"
    /\ ppc = "scan"
    /\ \E r \in {ScannerScan(unread)} :
           IF r.hasToken
           THEN /\ unread' = SubSeq(unread, r.advance + 1, Len(unread))
                /\ lastResponseText' = ""
                /\ IF IsDataLine(r.token)
                   THEN data' = StripPrefix(r.token) /\ ppc' = "send"
                   ELSE data' = r.token /\ ppc' = "scan"
           ELSE /\ ppc' = "stop"
                /\ UNCHANGED <<unread, data, lastResponseText>>
    /\ UNCHANGED <<call, consoleVars, chatVars, embeddingVars, unaryVars, ttsVars, body, bodyClosed, hpc, frame, clientGone,
                   usage, written, received, ret, accepted>>

\* a producer that ends at the end of the body without the send of line 329
ProducerScan_NoStop ==
    /\ call = "stream"
    /\ ppc = "scan"
    /\ \E r \in {ScannerScan(unread)} :
           IF r.hasToken
           THEN /\ unread' = SubSeq(unread, r.advance + 1, Len(unread))
                /\ IF IsDataLine(r.token)
                   THEN data' = StripPrefix(r.token) /\ ppc' = "send"
                   ELSE data' = r.token /\ ppc' = "scan"
           ELSE /\ ppc' = "exit"
                /\ UNCHANGED <<unread, data>>
    /\ UNCHANGED <<call, consoleVars, chatVars, embeddingVars, unaryVars, ttsVars, body, bodyClosed, hpc, frame, clientGone,
                   lastResponseText, usage, written, received, ret, accepted>>

\* lines 318-326: one scanner.Scan() of the producer and the filter on the
\* line it yields; line 329 is reached when the scanner is exhausted
ProducerScan ==
    /\ call = "stream"
    /\ ppc = "scan"
    /\ \E r \in {ScannerScan(unread)} :
           IF r.hasToken
           THEN /\ unread' = SubSeq(unread, r.advance + 1, Len(unread))
                /\ IF IsDataLine(r.token)
                   THEN data' = StripPrefix(r.token) /\ ppc' = "send"
                   ELSE data' = r.token /\ ppc' = "scan"
           ELSE /\ ppc' = "stop"
                /\ UNCHANGED <<unread, data>>
    /\ UNCHANGED <<call, consoleVars, chatVars, embeddingVars, unaryVars, ttsVars, body, bodyClosed, hpc, frame, clientGone,
                   lastResponseText, usage, written, received, ret, accepted>>

\* line 318: scanner.Scan() returns false because the read hits the body the
\* handler has closed; the goroutine goes on to line 329
ProducerReadClosed ==
    /\ call = "stream"
    /\ ppc = "scan"
    /\ bodyClosed
    /\ ppc' = "stop"
    /\ UNCHANGED <<call, consoleVars, chatVars, embeddingVars, unaryVars, ttsVars, body, unread, bodyClosed, data, hpc, frame,
                   clientGone, lastResponseText, usage, written, received, ret, accepted>>

\* the client goes away while the stream is running
ClientDisconnect ==
    /\ call = "stream"
    /\ hpc \in {"loop", "select", "process"}
    /\ ~clientGone
    /\ clientGone' = TRUE
    /\ UNCHANGED <<call, consoleVars, chatVars, embeddingVars, unaryVars, ttsVars, body, unread, bodyClosed, ppc, data, hpc, frame,
                   lastResponseText, usage, written, received, ret, accepted>>

\* line 333, c.Stream's loop: it ends when the client is gone, otherwise it
\* calls the step function, which waits in the select of line 334
StreamLoop ==
    /\ call = "stream"
    /\ hpc = "loop"
    /\ hpc' = IF clientGone THEN "close" ELSE "select"
    /\ UNCHANGED <<call, consoleVars, chatVars, embeddingVars, unaryVars, ttsVars, body, unread, bodyClosed, ppc, data, frame,
                   clientGone, lastResponseText, usage, written, received, ret, accepted>>

\* a send that does not wait for the receiver: the frame is lost when the
\* consumer is not in its select
HandOffData_Lossy ==
    /\ call = "stream"
    /\ ppc = "send"
    /\ ppc' = "scan"
    /\ IF hpc = "select"
       THEN /\ frame' = data
            /\ received' = Append(received, data)
            /\ hpc' = "process"
       ELSE UNCHANGED <<frame, received, hpc>>
    /\ UNCHANGED <<call, consoleVars, chatVars, embeddingVars, unaryVars, ttsVars, body, unread, bodyClosed, data,
                   clientGone, lastResponseText, usage, written, ret, accepted>>

\* lines 327 and 335: the producer's send on dataChan meets the consumer's
\* receive (the channel is unbuffered)
HandOffData ==
    /\ call = "stream"
    /\ ppc = "send"
    /\ hpc = "select"
    /\ frame' = data
    /\ received' = Append(received, data)
    /\ ppc' = "scan"
    /\ hpc' = "process"
    /\ UNCHANGED <<call, consoleVars, chatVars, embeddingVars, unaryVars, ttsVars, body, unread, bodyClosed, data, clientGone,
                   lastResponseText, usage, written, ret, accepted>>

\* an overwrite whose total counts the output tokens only
FrameUsage_TotalIsOutput(u, aliResponse) ==
    IF aliResponse.Usage.OutputTokens # 0
    THEN [PromptTokens |-> aliResponse.Usage.InputTokens,
          CompletionTokens |-> aliResponse.Usage.OutputTokens,
          TotalTokens |-> aliResponse.Usage.OutputTokens]
    ELSE u

\* lines 342-346: the usage after a decoded frame
FrameUsage(u, aliResponse) ==
    IF aliResponse.Usage.OutputTokens # 0
    THEN [PromptTokens |-> aliResponse.Usage.InputTokens,
          CompletionTokens |-> aliResponse.Usage.OutputTokens,
          TotalTokens |-> aliResponse.Usage.InputTokens + aliResponse.Usage.OutputTokens]
    ELSE u

\* the chunk carrying the cumulative text untrimmed
ChunkDelta_NoTrim(content, last) == content

\* line 348: the delta of the chunk
ChunkDelta(content, last) == TrimPrefix(content, last)

\* a tracker that is kept when the frame's text does not extend it
NextLastResponseText_OnlyGrows(aliResponse, last) ==
    IF TrimPrefix(aliResponse.Output.Text, last) = aliResponse.Output.Text /\ last # ""
    THEN last
    ELSE aliResponse.Output.Text

\* line 349: the tracker after a decoded frame
NextLastResponseText(aliResponse, last) == aliResponse.Output.Text

\* a decode failure that ends the stream: the step function returns false
ConsumeFrame_StopOnError ==
    /\ call = "stream"
    /\ hpc = "process"
    /\ LET dec == Unmarshal(frame)
           response == streamResponseAli2OpenAI(dec.value)
       IN  IF dec.err
           THEN hpc' = "close" /\ UNCHANGED <<usage, lastResponseText, written>>
           ELSE /\ hpc' = "loop"
                /\ usage' = FrameUsage(usage, dec.value)
                /\ lastResponseText' = NextLastResponseText(dec.value, lastResponseText)
                /\ written' = Append(written,
                       ChunkFrame([response EXCEPT
                                      !.Content = ChunkDelta(response.Content, lastResponseText)],
                                  Len(received)))
    /\ UNCHANGED <<call, consoleVars, chatVars, embeddingVars, unaryVars, ttsVars, body, unread, bodyClosed, ppc, data, frame,
                   clientGone, received, ret, accepted>>

\* lines 336-356: the consumer handles the frame it received.  json.Marshal
\* of the chunk (strings and integers only) has no failing input, so line
\* 355 is reached for every decoded frame.
ConsumeFrame ==
    /\ call = "stream"
    /\ hpc = "process"
    /\ LET dec == Unmarshal(frame)
           response == streamResponseAli2OpenAI(dec.value)
       IN  IF dec.err
           THEN UNCHANGED <<usage, lastResponseText, written>>
           ELSE /\ usage' = FrameUsage(usage, dec.value)
                /\ lastResponseText' = NextLastResponseText(dec.value, lastResponseText)
                /\ written' = Append(written,
                       ChunkFrame([response EXCEPT
                                      !.Content = ChunkDelta(response.Content, lastResponseText)],
                                  Len(received)))
    /\ hpc' = "loop"
    /\ UNCHANGED <<call, consoleVars, chatVars, embeddingVars, unaryVars, ttsVars, body, unread, bodyClosed, ppc, data, frame,
                   clientGone, received, ret, accepted>>

\* the loop ended on the stop signal without the terminal frame
HandOffStop_NoSentinel ==
    /\ call = "stream"
    /\ ppc = "stop"
    /\ hpc = "select"
    /\ ppc' = "exit"
    /\ hpc' = "close"
    /\ UNCHANGED <<call, consoleVars, chatVars, embeddingVars, unaryVars, ttsVars, body, unread, bodyClosed, data, frame,
                   clientGone, lastResponseText, usage, written, received, ret, accepted>>

\* a stop signal that a returned handler no longer has to receive, as on a
\* buffered stopChan
HandOffStop_Buffered ==
    /\ call = "stream"
    /\ ppc = "stop"
    /\ hpc \in {"select", "returned"}
    /\ ppc' = "exit"
    /\ IF hpc = "select"
       THEN written' = Append(written, DoneFrame) /\ hpc' = "close"
       ELSE UNCHANGED <<written, hpc>>
    /\ UNCHANGED <<call, consoleVars, chatVars, embeddingVars, unaryVars, ttsVars, body, unread, bodyClosed, data, frame, clientGone,
                   lastResponseText, usage, received, ret, accepted>>

\* lines 329 and 357-359: the producer's send on stopChan meets the
\* consumer's receive; the consumer writes the terminal frame and ends the loop
HandOffStop ==
    /\ call = "stream"
    /\ ppc = "stop"
    /\ hpc = "select"
    /\ written' = Append(written, DoneFrame)
    /\ ppc' = "exit"
    /\ hpc' = "close"
    /\ UNCHANGED <<call, consoleVars, chatVars, embeddingVars, unaryVars, ttsVars, body, unread, bodyClosed, data, frame, clientGone,
                   lastResponseText, usage, received, ret, accepted>>

\* a fresh usage record returned instead of the accumulated one
CloseBody_FreshUsage ==
    /\ call = "stream"
    /\ hpc = "close"
    /\ bodyClosed' = TRUE
    /\ \E closeFails \in BOOLEAN :
          ret' = IF closeFails
                 THEN [returned |-> TRUE, err |-> "close_response_body_failed",
                       status |-> 500, hasUsage |-> FALSE, usage |-> ZeroUsage]
                 ELSE [returned |-> TRUE, err |-> "", status |-> 0,
                       hasUsage |-> TRUE, usage |-> ZeroUsage]
    /\ hpc' = "returned"
    /\ UNCHANGED <<call, consoleVars, chatVars, embeddingVars, unaryVars, ttsVars, body, unread, ppc, data, frame, clientGone,
                   lastResponseText, usage, written, received, accepted>>

\* lines 362-366: close the body and return
CloseBody ==
    /\ call = "stream"
    /\ hpc = "close"
    /\ bodyClosed' = TRUE
    /\ \E closeFails \in BOOLEAN :
          ret' = IF closeFails
                 THEN [returned |-> TRUE, err |-> "close_response_body_failed",
                       status |-> 500, hasUsage |-> FALSE, usage |-> ZeroUsage]
                 ELSE [returned |-> TRUE, err |-> "", status |-> 0,
                       hasUsage |-> TRUE, usage |-> usage]
    /\ hpc' = "returned"
    /\ UNCHANGED <<call, consoleVars, chatVars, embeddingVars, unaryVars, ttsVars, body, unread, ppc, data, frame, clientGone,
                   lastResponseText, usage, written, received, accepted>>

----------------------------------------------------------------------------

(* The embedding call: the decoded vendor reply is handed to                *)
(* embeddingResponseAli2OpenAI (line 231).                                  *)

InitEmbedding ==
    /\ call = "embedding"
    /\ UnaryIdle
    /\ TTSIdle
    /\ ConsoleIdle
    /\ ChatIdle
    /\ StreamIdle
    /\ aliEmbedding \in
          {[Output |-> [Embeddings |-> e], Usage |-> [TotalTokens |-> t]] :
              e \in SeqsUpTo(AliEmbeddingSet, MaxEmbeddings), t \in TotalTokenCounts}
    /\ embedding = NoEmbedding
    /\ epc = "start"

\* line 231: fullTextResponse := embeddingResponseAli2OpenAI(&aliResponse)
ConvertEmbedding ==
    /\ call = "embedding"
    /\ epc = "start"
    /\ embedding' = embeddingResponseAli2OpenAI(aliEmbedding)
    /\ epc' = "done"
    /\ UNCHANGED <<call, consoleVars, chatVars, streamVars, aliEmbedding, unaryVars, ttsVars>>

----------------------------------------------------------------------------
(* aliHandler (relay-ali.go:369-403) and aliEmbeddingHandler (207-240): the *)
(* unary replies.  Reading, closing and writing can fail; which of them     *)
(* does is chosen at the step.                                              *)

\* the vendor's HTTP status codes drawn
StatusCodes == {200, 400}

\* bodies that are not JSON
MalformedBodies == {"", "{\"output\":"}

\* An AliEmbeddingResponse value (relay-ali.go:110-116)
AliEmbeddingResponse(embeddings, totalTokens, code, message, requestId) ==
    [Output |-> [Embeddings |-> embeddings],
     Usage |-> [TotalTokens |-> totalTokens],
     Code |-> code, Message |-> message, RequestId |-> requestId]

\* The embedding replies of the vendor: the JSON text and the
\* AliEmbeddingResponse the decoder of line 209 decodes it to.
EmbeddingReplies ==
    { [json  |-> "{\"output\":{\"embeddings\":[{\"embedding\":[0.9],\"text_index\":1},{\"embedding\":[0.1,0.2],\"text_index\":0}]},\"usage\":{\"total_tokens\":7},\"request_id\":\"r2\"}",
       value |-> AliEmbeddingResponse(<<[Embedding |-> <<9>>, TextIndex |-> 1],
                                        [Embedding |-> <<1, 2>>, TextIndex |-> 0]>>,
                                      7, "", "", "r2")],
      [json  |-> "{\"output\":{\"embeddings\":[{\"embedding\":[0.5],\"text_index\":0}]},\"usage\":{\"total_tokens\":0}}",
       value |-> AliEmbeddingResponse(<<[Embedding |-> <<5>>, TextIndex |-> 0]>>,
                                      0, "", "", "")],
      [json  |-> "{\"code\":\"InvalidParameter\",\"message\":\"bad input\",\"request_id\":\"r3\"}",
       value |-> AliEmbeddingResponse(<<>>, 0, "InvalidParameter", "bad input", "r3")] }

\* line 209: json.NewDecoder(resp.Body).Decode(&aliResponse)
DecodeEmbedding(text) ==
    IF \E r \in EmbeddingReplies : r.json = text
    THEN [err |-> FALSE, value |-> (CHOOSE r \in EmbeddingReplies : r.json = text).value]
    ELSE [err |-> TRUE, value |-> AliEmbeddingResponse(<<>>, 0, "", "", "")]

\* errorWrapper(err, code, statusCode) as the handlers call it: the error
\* returned carries the stage's code and the status (what errorWrapper puts
\* in Message and Type is not this file's and is left empty)
InternalError(code, statusCode) ==
    [isNil |-> FALSE, Message |-> "", Type |-> "", Param |-> "",
     Code |-> code, StatusCode |-> statusCode]

\* lines 384-392: the error aliHandler returns for a vendor error
AliHandlerError(response, statusCode) ==
    [isNil |-> FALSE, Message |-> response.Message, Type |-> response.Code,
     Param |-> response.RequestId, Code |-> response.Code, StatusCode |-> statusCode]

\* a vendor error reported with the message as its type
AliEmbeddingHandlerError_TypeIsMessage(response, statusCode) ==
    [isNil |-> FALSE, Message |-> response.Message, Type |-> response.Message,
     Param |-> response.RequestId, Code |-> response.Code, StatusCode |-> statusCode]

\* lines 220-228: the error aliEmbeddingHandler returns for a vendor error
AliEmbeddingHandlerError(response, statusCode) ==
    [isNil |-> FALSE, Message |-> response.Message, Type |-> response.Code,
     Param |-> response.RequestId, Code |-> response.Code, StatusCode |-> statusCode]

\* the values common.GetTimestamp() returns (line 274)
Timestamps == {1700000000}

\* a choice that reports the reply's finish reason as "stop" whatever it is
responseAli2OpenAI_StopAlways(response, created) ==
    [Id |-> response.RequestId,
     Object |-> "chat.completion",
     Created |-> created,
     Choices |-> <<[Index |-> 0,
                    Message |-> [Role |-> "assistant", Content |-> response.Output.Text],
                    FinishReason |-> "stop"]>>,
     Usage |-> [PromptTokens |-> response.Usage.InputTokens,
                CompletionTokens |-> response.Usage.OutputTokens,
                TotalTokens |-> response.Usage.InputTokens + response.Usage.OutputTokens]]

\* lines 260-281
responseAli2OpenAI(response, created) ==
    [Id |-> response.RequestId,
     Object |-> "chat.completion",
     Created |-> created,
     Choices |-> <<[Index |-> 0,
                    Message |-> [Role |-> "assistant", Content |-> response.Output.Text],
                    FinishReason |-> response.Output.FinishReason]>>,
     Usage |-> [PromptTokens |-> response.Usage.InputTokens,
                CompletionTokens |-> response.Usage.OutputTokens,
                TotalTokens |-> response.Usage.InputTokens + response.Usage.OutputTokens]]

\* an error returned together with a usage record
ReturnError_WithUsage(e) == [returned |-> TRUE, err |-> e, hasUsage |-> TRUE, usage |-> ZeroUsage]

\* return statements
ReturnError(e) == [returned |-> TRUE, err |-> e, hasUsage |-> FALSE, usage |-> ZeroUsage]

ReturnUsage(u) == [returned |-> TRUE, err |-> NoError, hasUsage |-> TRUE, usage |-> u]

InitUnary ==
    /\ call = "unary"
    /\ TTSIdle
    /\ ConsoleIdle
    /\ ChatIdle
    /\ StreamIdle
    /\ EmbeddingIdle
    /\ handler \in {"aliHandler", "aliEmbeddingHandler"}
    /\ resp \in [StatusCode : StatusCodes,
                 Body : IF handler = "aliHandler"
                        THEN {r.json : r \in VendorReplies} \cup MalformedBodies
                        ELSE {r.json : r \in EmbeddingReplies} \cup MalformedBodies]
    /\ upc = IF handler = "aliHandler" THEN "read" ELSE "decode"
    /\ respClosed = 0
    /\ responseBody = ""
    /\ vendorReply = IF handler = "aliHandler"
                     THEN AliChatResponse("", "", 0, 0, "", "", "")
                     ELSE AliEmbeddingResponse(<<>>, 0, "", "", "")
    /\ cHeader = NoHeader
    /\ cWrites = <<>>
    /\ uret = NoUnaryReturn
    /\ faults = {}

\* lines 371-374: responseBody, err := io.ReadAll(resp.Body)
AliHandlerRead ==
    /\ call = "unary" /\ handler = "aliHandler"
    /\ upc = "read"
    /\ \E readFails \in BOOLEAN :
          IF readFails
          THEN /\ uret' = ReturnError(InternalError("read_response_body_failed", 500))
               /\ upc' = "returned"
               /\ faults' = faults \cup {"read"}
               /\ UNCHANGED responseBody
          ELSE /\ responseBody' = resp.Body
               /\ upc' = "close"
               /\ UNCHANGED <<uret, faults>>
    /\ UNCHANGED <<call, consoleVars, chatVars, streamVars, embeddingVars, ttsVars, handler, resp, respClosed,
                   vendorReply, cHeader, cWrites>>

\* a close failure reported as a read failure
AliHandlerClose_TaggedRead ==
    /\ call = "unary" /\ handler = "aliHandler"
    /\ upc = "close"
    /\ respClosed' = respClosed + 1
    /\ \E closeFails \in BOOLEAN :
          IF closeFails
          THEN /\ uret' = ReturnError(InternalError("read_response_body_failed", 500))
               /\ upc' = "returned"
               /\ faults' = faults \cup {"close"}
          ELSE /\ upc' = "unmarshal"
               /\ UNCHANGED <<uret, faults>>
    /\ UNCHANGED <<call, consoleVars, chatVars, streamVars, embeddingVars, ttsVars, handler, resp, responseBody,
                   vendorReply, cHeader, cWrites>>

\* lines 375-378: err = resp.Body.Close()
AliHandlerClose ==
    /\ call = "unary" /\ handler = "aliHandler"
    /\ upc = "close"
    /\ respClosed' = respClosed + 1
    /\ \E closeFails \in BOOLEAN :
          IF closeFails
          THEN /\ uret' = ReturnError(InternalError("close_response_body_failed", 500))
               /\ upc' = "returned"
               /\ faults' = faults \cup {"close"}
          ELSE /\ upc' = "unmarshal"
               /\ UNCHANGED <<uret, faults>>
    /\ UNCHANGED <<call, consoleVars, chatVars, streamVars, embeddingVars, ttsVars, handler, resp, responseBody,
                   vendorReply, cHeader, cWrites>>

\* lines 379-382: err = json.Unmarshal(responseBody, &aliResponse)
AliHandlerUnmarshal ==
    /\ call = "unary" /\ handler = "aliHandler"
    /\ upc = "unmarshal"
    /\ LET dec == Unmarshal(responseBody)
       IN  IF dec.err
           THEN /\ uret' = ReturnError(InternalError("unmarshal_response_body_failed", 500))
                /\ upc' = "returned"
                /\ faults' = faults \cup {"decode"}
                /\ UNCHANGED vendorReply
           ELSE /\ vendorReply' = dec.value
                /\ upc' = "respond"
                /\ UNCHANGED <<uret, faults>>
    /\ UNCHANGED <<call, consoleVars, chatVars, streamVars, embeddingVars, ttsVars, handler, resp, respClosed,
                   responseBody, cHeader, cWrites>>

\* lines 383-402: a vendor error is returned; otherwise the reply is
\* converted, marshalled (the bytes written are kept as the value they
\* encode) and written, and the usage is returned whether or not the write
\* failed: its error is assigned and not looked at.
AliHandlerRespond ==
    /\ call = "unary" /\ handler = "aliHandler"
    /\ upc = "respond"
    /\ IF vendorReply.Code # ""
       THEN /\ uret' = ReturnError(AliHandlerError(vendorReply, resp.StatusCode))
            /\ UNCHANGED <<cHeader, cWrites, faults>>
       ELSE \E created \in Timestamps, writeFails \in BOOLEAN :
               LET fullTextResponse == responseAli2OpenAI(vendorReply, created)
               IN  /\ cHeader' = [written |-> TRUE, ContentType |-> "application/json",
                                  StatusCode |-> resp.StatusCode]
                   /\ cWrites' = Append(cWrites, [data |-> fullTextResponse,
                                                  failed |-> writeFails])
                   /\ uret' = ReturnUsage(fullTextResponse.Usage)
                   /\ faults' = IF writeFails THEN faults \cup {"write"} ELSE faults
    /\ upc' = "returned"
    /\ UNCHANGED <<call, consoleVars, chatVars, streamVars, embeddingVars, ttsVars, handler, resp, respClosed,
                   responseBody, vendorReply>>

\* lines 208-212: the decoder reads resp.Body and decodes it; a read error
\* and a text that is not JSON both come back as the decoder's error
AliEmbeddingHandlerDecode ==
    /\ call = "unary" /\ handler = "aliEmbeddingHandler"
    /\ upc = "decode"
    /\ \E readFails \in BOOLEAN :
          LET dec == DecodeEmbedding(resp.Body)
          IN  IF readFails \/ dec.err
              THEN /\ uret' = ReturnError(InternalError("unmarshal_response_body_failed", 500))
                   /\ upc' = "returned"
                   /\ faults' = faults \cup {IF readFails THEN "read" ELSE "decode"}
                   /\ UNCHANGED vendorReply
              ELSE /\ vendorReply' = dec.value
                   /\ upc' = "close"
                   /\ UNCHANGED <<uret, faults>>
    /\ UNCHANGED <<call, consoleVars, chatVars, streamVars, embeddingVars, ttsVars, handler, resp, respClosed,
                   responseBody, cHeader, cWrites>>

\* lines 214-217: err = resp.Body.Close()
AliEmbeddingHandlerClose ==
    /\ call = "unary" /\ handler = "aliEmbeddingHandler"
    /\ upc = "close"
    /\ respClosed' = respClosed + 1
    /\ \E closeFails \in BOOLEAN :
          IF closeFails
          THEN /\ uret' = ReturnError(InternalError("close_response_body_failed", 500))
               /\ upc' = "returned"
               /\ faults' = faults \cup {"close"}
          ELSE /\ upc' = "respond"
               /\ UNCHANGED <<uret, faults>>
    /\ UNCHANGED <<call, consoleVars, chatVars, streamVars, embeddingVars, ttsVars, handler, resp, responseBody,
                   vendorReply, cHeader, cWrites>>

\* lines 219-239: as lines 383-402 of aliHandler, with
\* embeddingResponseAli2OpenAI
AliEmbeddingHandlerRespond ==
    /\ call = "unary" /\ handler = "aliEmbeddingHandler"
    /\ upc = "respond"
    /\ IF vendorReply.Code # ""
       THEN /\ uret' = ReturnError(AliEmbeddingHandlerError(vendorReply, resp.StatusCode))
            /\ UNCHANGED <<cHeader, cWrites, faults>>
       ELSE \E writeFails \in BOOLEAN :
               LET fullTextResponse == embeddingResponseAli2OpenAI(vendorReply)
               IN  /\ cHeader' = [written |-> TRUE, ContentType |-> "application/json",
                                  StatusCode |-> resp.StatusCode]
                   /\ cWrites' = Append(cWrites, [data |-> fullTextResponse,
                                                  failed |-> writeFails])
                   /\ uret' = ReturnUsage(fullTextResponse.Usage)
                   /\ faults' = IF writeFails THEN faults \cup {"write"} ELSE faults
    /\ upc' = "returned"
    /\ UNCHANGED <<call, consoleVars, chatVars, streamVars, embeddingVars, ttsVars, handler, resp, respClosed,
                   responseBody, vendorReply>>

----------------------------------------------------------------------------
(* aliTTSHandler, relay-ali.go:405-457 *)

\* line 422
chunkSize == 1024

TextToSpeechRequests ==
    {[Model |-> "sambert-v1", Input |-> "hello", ResponseFormat |-> "mp3", Speed |-> 1]}

\* the values uuid.New().String() returns (line 183)
TaskIDs == {"task-1"}

\* lines 179-194
requestOpenAI2AliTTS(ttsRequest, taskID) ==
    [Header |-> [Action |-> "run-task", Streaming |-> "out", TaskID |-> taskID],
     Payload |-> [Function |-> "SpeechSynthesizer",
                  Input |-> [Text |-> ttsRequest.Input],
                  Model |-> ttsRequest.Model,
                  Parameters |-> [Format |-> ttsRequest.ResponseFormat, Rate |-> ttsRequest.Speed],
                  Task |-> "tts",
                  TaskGroup |-> "audio"]]

\* An AliWSSMessage as the handler reads it: the header's event and the
\* payload's character count (relay-ali.go:65-93)
AliWSSMessage(event, characters) ==
    [Header |-> [Event |-> event], Payload |-> [Usage |-> [Characters |-> characters]]]

\* The text messages of the vendor: the JSON text, whether json.Unmarshal
\* reports an error for it, and the AliWSSMessage it leaves in msg.  A text
\* that is not JSON leaves msg zero; a value of the wrong type is skipped and
\* reported while the other fields are decoded.
WSSReplies ==
    { [json  |-> "{\"header\":{\"event\":\"task-started\"}}",
       err   |-> FALSE,
       value |-> AliWSSMessage("task-started", 0)],
      [json  |-> "{\"header\":{\"event\":\"task-finished\"},\"payload\":{\"usage\":{\"characters\":12}}}",
       err   |-> FALSE,
       value |-> AliWSSMessage("task-finished", 12)],
      [json  |-> "{\"header\":{\"event\":\"task-finished\"}}",
       err   |-> FALSE,
       value |-> AliWSSMessage("task-finished", 0)],
      [json  |-> "{\"header\":{\"event\":\"task-finished\"},\"payload\":{\"usage\":{\"characters\":\"12\"}}}",
       err   |-> TRUE,
       value |-> AliWSSMessage("task-finished", 0)],
      [json  |-> "{\"header\":",
       err   |-> TRUE,
       value |-> AliWSSMessage("", 0)],
      [json  |-> "{\"header\":{\"event\":\"task-finished\"}",
       err   |-> TRUE,
       value |-> AliWSSMessage("", 0)] }

\* the texts above that are not JSON: json.Unmarshal checks the syntax of
\* the whole text before it stores anything, and leaves msg at its zero value
MalformedTexts ==
    {"{\"header\":", "{\"header\":{\"event\":\"task-finished\"}"}

\* a decoder that stores what it read before the syntax error
UnmarshalWSS_KeepsPrefix(text) ==
    LET r == CHOOSE x \in WSSReplies : x.json = text
    IN  IF text = "{\"header\":{\"event\":\"task-finished\"}"
        THEN [err |-> TRUE, value |-> AliWSSMessage("task-finished", 0)]
        ELSE [err |-> r.err, value |-> r.value]

\* line 436: json.Unmarshal(audioData, &msg)
UnmarshalWSS(text) ==
    LET r == CHOOSE x \in WSSReplies : x.json = text
    IN  [err |-> r.err, value |-> r.value]

\* the lengths of the binary messages drawn: empty, one full chunk, and two
\* full chunks with a rest
AudioSizes == {0, 1024, 2500}

\* what conn.ReadMessage returns: the type, the text of a text message, the
\* length of a binary one (its bytes are told apart by message and offset)
WSSMessages ==
    {[messageType |-> "TextMessage", data |-> r.json, size |-> Len(r.json)] : r \in WSSReplies}
        \cup {[messageType |-> "BinaryMessage", data |-> "", size |-> n] : n \in AudioSizes}

InitTTS ==
    /\ call = "tts"
    /\ ConsoleIdle
    /\ ChatIdle
    /\ StreamIdle
    /\ EmbeddingIdle
    /\ UnaryIdle
    /\ req \in TextToSpeechRequests
    /\ socket \in SeqsUpTo(WSSMessages, MaxFrames)
    /\ tpc = "dial"
    /\ connOpened = FALSE
    /\ connCloses = 0
    /\ sent = <<>>
    /\ audioData = NoAudio
    /\ chunkStart = 0
    /\ audioWrites = <<>>
    /\ readLog = <<>>
    /\ sawEOF = FALSE
    /\ ttsUsage = ZeroUsage
    /\ tret = NoUnaryReturn

\* a return that skips the deferred close
Deferred_NoClose(closes) == closes

\* line 414: defer conn.Close() runs once when the handler returns
Deferred(closes) == closes + 1

\* lines 410-414
Dial ==
    /\ call = "tts"
    /\ tpc = "dial"
    /\ \E dialFails \in BOOLEAN :
          IF dialFails
          THEN /\ tret' = ReturnError(InternalError("wss_conn_failed", 500))
               /\ tpc' = "returned"
               /\ UNCHANGED connOpened
          ELSE /\ connOpened' = TRUE
               /\ tpc' = "send"
               /\ UNCHANGED tret
    /\ UNCHANGED <<call, consoleVars, chatVars, streamVars, embeddingVars, unaryVars, req, socket,
                   connCloses, sent, audioData, chunkStart, audioWrites, readLog, sawEOF,
                   ttsUsage>>

\* lines 416-420
WriteJSON ==
    /\ call = "tts"
    /\ tpc = "send"
    /\ \E taskID \in TaskIDs, writeFails \in BOOLEAN :
          IF writeFails
          THEN /\ tret' = ReturnError(InternalError("wss_write_msg_failed", 500))
               /\ connCloses' = Deferred(connCloses)
               /\ tpc' = "returned"
               /\ UNCHANGED sent
          ELSE /\ sent' = Append(sent, requestOpenAI2AliTTS(req, taskID))
               /\ tpc' = "read"
               /\ UNCHANGED <<tret, connCloses>>
    /\ UNCHANGED <<call, consoleVars, chatVars, streamVars, embeddingVars, unaryVars, req, socket,
                   connOpened, audioData, chunkStart, audioWrites, readLog, sawEOF, ttsUsage>>

\* a usage that puts the characters in the prompt count
FinishedUsage_AsPrompt(u, msg) == [u EXCEPT !.PromptTokens = msg.Payload.Usage.Characters]

\* line 438
FinishedUsage(u, msg) == [u EXCEPT !.TotalTokens = msg.Payload.Usage.Characters]

\* lines 425, 433-441: conn.ReadMessage returns a message.  A text message is
\* decoded (the decoder's error is not looked at) and ends the call when its
\* event is "task-finished"; a binary message starts the loop of line 442,
\* which makes no turn for a message of length 0.
ReadMessage ==
    /\ call = "tts"
    /\ tpc = "read"
    /\ socket # <<>>
    /\ LET m == Head(socket)
           msg == UnmarshalWSS(m.data).value
       IN  /\ socket' = Tail(socket)
           /\ readLog' = Append(readLog, m)
           /\ IF m.messageType = "TextMessage"
              THEN IF msg.Header.Event = "task-finished"
                   THEN /\ ttsUsage' = FinishedUsage(ttsUsage, msg)
                        /\ tret' = ReturnUsage(FinishedUsage(ttsUsage, msg))
                        /\ connCloses' = Deferred(connCloses)
                        /\ tpc' = "returned"
                        /\ UNCHANGED <<audioData, chunkStart>>
                   ELSE UNCHANGED <<ttsUsage, tret, connCloses, tpc, audioData, chunkStart>>
              ELSE /\ audioData' = [ord |-> Len(readLog) + 1, size |-> m.size]
                   /\ chunkStart' = 0
                   /\ tpc' = IF 0 < m.size THEN "forward" ELSE "read"
                   /\ UNCHANGED <<ttsUsage, tret, connCloses>>
    /\ UNCHANGED <<call, consoleVars, chatVars, streamVars, embeddingVars, unaryVars, req, connOpened,
                   sent, audioWrites, sawEOF>>

\* an end of stream handled as any other read error
ReadEOF_IsError ==
    /\ call = "tts"
    /\ tpc = "read"
    /\ socket = <<>>
    /\ sawEOF' = TRUE
    /\ tret' = ReturnError(InternalError("wss_read_msg_failed", 500))
    /\ connCloses' = Deferred(connCloses)
    /\ tpc' = "returned"
    /\ UNCHANGED <<call, consoleVars, chatVars, streamVars, embeddingVars, unaryVars, req, socket,
                   connOpened, sent, audioData, chunkStart, audioWrites, readLog, ttsUsage>>

\* lines 425-429, 456: conn.ReadMessage returns io.EOF; the loop is left and
\* the usage is returned
ReadEOF ==
    /\ call = "tts"
    /\ tpc = "read"
    /\ socket = <<>>
    /\ sawEOF' = TRUE
    /\ tret' = ReturnUsage(ttsUsage)
    /\ connCloses' = Deferred(connCloses)
    /\ tpc' = "returned"
    /\ UNCHANGED <<call, consoleVars, chatVars, streamVars, embeddingVars, unaryVars, req, socket,
                   connOpened, sent, audioData, chunkStart, audioWrites, readLog, ttsUsage>>

\* lines 425-431: conn.ReadMessage returns another error
ReadError ==
    /\ call = "tts"
    /\ tpc = "read"
    /\ tret' = ReturnError(InternalError("wss_read_msg_failed", 500))
    /\ connCloses' = Deferred(connCloses)
    /\ tpc' = "returned"
    /\ UNCHANGED <<call, consoleVars, chatVars, streamVars, embeddingVars, unaryVars, req, socket,
                   connOpened, sent, audioData, chunkStart, audioWrites, readLog, sawEOF,
                   ttsUsage>>

\* a chunk end that is not clamped to the length of the frame
ChunkEnd_Unclamped(i, size) == i + chunkSize

\* a chunk that ends one byte early
ChunkEnd_OneShort(i, size) ==
    IF i + chunkSize - 1 > size THEN size ELSE i + chunkSize - 1

\* lines 443-446: end of the chunk that starts at i
ChunkEnd(i, size) == IF i + chunkSize > size THEN size ELSE i + chunkSize

\* a step that starts the next chunk on the last byte of this one
NextChunkStart_Overlap(i) == i + chunkSize - 1

\* line 442: i += chunkSize
NextChunkStart(i) == i + chunkSize

\* a loop that goes on after a failed write
WriteChunk_IgnoresError ==
    /\ call = "tts"
    /\ tpc = "forward"
    /\ \E writeErr \in BOOLEAN :
          /\ audioWrites' = Append(audioWrites,
                                   [ord |-> audioData.ord, lo |-> chunkStart,
                                    hi |-> ChunkEnd(chunkStart, audioData.size),
                                    failed |-> writeErr])
          /\ chunkStart' = NextChunkStart(chunkStart)
          /\ tpc' = IF NextChunkStart(chunkStart) < audioData.size
                    THEN "forward" ELSE "read"
          /\ UNCHANGED <<tret, connCloses>>
    /\ UNCHANGED <<call, consoleVars, chatVars, streamVars, embeddingVars, unaryVars, req, socket,
                   connOpened, sent, audioData, readLog, sawEOF, ttsUsage>>

\* lines 442-452: one turn of the loop: the chunk audioData[i:end] is
\* written to the client
WriteChunk ==
    /\ call = "tts"
    /\ tpc = "forward"
    /\ \E writeErr \in BOOLEAN :
          /\ audioWrites' = Append(audioWrites,
                                   [ord |-> audioData.ord, lo |-> chunkStart,
                                    hi |-> ChunkEnd(chunkStart, audioData.size),
                                    failed |-> writeErr])
          /\ IF writeErr
             THEN /\ tret' = ReturnError(InternalError("write_audio_failed", 500))
                  /\ connCloses' = Deferred(connCloses)
                  /\ tpc' = "returned"
                  /\ UNCHANGED chunkStart
             ELSE /\ chunkStart' = NextChunkStart(chunkStart)
                  /\ tpc' = IF NextChunkStart(chunkStart) < audioData.size
                            THEN "forward" ELSE "read"
                  /\ UNCHANGED <<tret, connCloses>>
    /\ UNCHANGED <<call, consoleVars, chatVars, streamVars, embeddingVars, unaryVars, req, socket,
                   connOpened, sent, audioData, readLog, sawEOF, ttsUsage>>

----------------------------------------------------------------------------
(* SystemSetting, unnamed/part_000: the state after the first render, with  *)
(* the GET of getOptions (lines 88-90) on its way.  The console's server is *)
(* not part of the program: what it answers is drawn from the possible      *)
(* answers.                                                                 *)

\* the switches updateOption toggles (lines 95-103) and the text fields
\* handleInputChange only stores (lines 137-158), of the options modelled
ToggleKeys == {"PasswordLoginEnabled", "PasswordRegisterEnabled"}

TextNames == {"ServerAddress"}

OptionNames == ToggleKeys \cup TextNames

Addresses == {"", "https://a"}

\* what GET /api/option/ can answer: a value for every option
StoredOptions ==
    [PasswordLoginEnabled : {"true", "false"}, PasswordRegisterEnabled : {"true", "false"},
     ServerAddress : Addresses]

\* event.target.value of a change event on the field
EventValues(name) == IF name \in TextNames THEN Addresses ELSE {"on"}

InitConsole ==
    /\ call = "console"
    /\ ChatIdle
    /\ StreamIdle
    /\ EmbeddingIdle
    /\ UnaryIdle
    /\ TTSIdle
    /\ inputs = EmptyInputs
    /\ showPasswordWarningModal = FALSE
    /\ loading = FALSE
    /\ getPending = TRUE
    /\ requests = <<>>
    /\ pending = {}
    /\ lastEvent = [NoEvent EXCEPT !.kind = "mount"]

\* lines 68-86: the response of the GET arrives; on success every input is
\* replaced by the value the server answered
GetOptionsReply ==
    /\ call = "console"
    /\ getPending
    /\ getPending' = FALSE
    /\ \E success \in BOOLEAN, newInputs \in StoredOptions :
          /\ inputs' = IF success THEN newInputs ELSE inputs
          /\ lastEvent' = [NoEvent EXCEPT !.kind = "loaded", !.success = success]
    /\ UNCHANGED <<call, chatVars, streamVars, embeddingVars, unaryVars, ttsVars,
                   showPasswordWarningModal, loading, requests, pending>>

\* lines 94-107: the value updateOption sends: a switch is toggled from the
\* value the console shows, whatever value the caller passed
UpdateValue(key, value) ==
    IF key \in ToggleKeys
    THEN (IF inputs[key] = "true" THEN "false" ELSE "true")
    ELSE value

\* lines 92-111: updateOption up to its await: loading is set and the PUT sent
updateOption(key, value, via) ==
    /\ Len(requests) < MaxUpdates
    /\ loading' = TRUE
    /\ requests' = Append(requests, [key |-> key, value |-> UpdateValue(key, value),
                                     via |-> via])
    /\ pending' = pending \cup {Len(requests) + 1}
    /\ UNCHANGED inputs

\* lines 129-164: a change event on a field of the form.  The dialog of line
\* 857 is modal, and the text fields are disabled while loading (line 282).
handleInputChange ==
    /\ call = "console"
    /\ ~showPasswordWarningModal
    /\ \E name \in OptionNames :
          \E value \in EventValues(name) :
             /\ name \in TextNames => ~loading
             /\ lastEvent' = [NoEvent EXCEPT !.kind = "change", !.name = name]
             /\ IF name = "PasswordLoginEnabled" /\ inputs[name] = "true"
                THEN /\ showPasswordWarningModal' = TRUE
                     /\ UNCHANGED <<inputs, loading, requests, pending>>
                ELSE IF name \in TextNames
                THEN /\ inputs' = [inputs EXCEPT ![name] = value]
                     /\ UNCHANGED <<showPasswordWarningModal, loading, requests, pending>>
                ELSE /\ updateOption(name, value, "change")
                     /\ UNCHANGED showPasswordWarningModal
    /\ UNCHANGED <<call, chatVars, streamVars, embeddingVars, unaryVars, ttsVars, getPending>>

\* lines 112-126: the response of a PUT arrives, in any order; on success
\* the input takes the value that was sent
UpdateReply ==
    /\ call = "console"
    /\ \E i \in pending :
          \E success \in BOOLEAN :
             /\ inputs' = IF success
                          THEN [inputs EXCEPT ![requests[i].key] = requests[i].value]
                          ELSE inputs
             /\ pending' = pending \ {i}
             /\ lastEvent' = [NoEvent EXCEPT !.kind = "reply", !.request = i,
                                         !.success = success]
    /\ loading' = FALSE
    /\ UNCHANGED <<call, chatVars, streamVars, embeddingVars, unaryVars, ttsVars,
                   showPasswordWarningModal, getPending, requests>>

\* line 857: onClose of the dialog
DialogClose ==
    /\ call = "console"
    /\ showPasswordWarningModal
    /\ showPasswordWarningModal' = FALSE
    /\ lastEvent' = [NoEvent EXCEPT !.kind = "close"]
    /\ UNCHANGED <<call, chatVars, streamVars, embeddingVars, unaryVars, ttsVars,
                   inputs, loading, getPending, requests, pending>>

\* line 864: the cancel button
DialogCancel ==
    /\ call = "console"
    /\ showPasswordWarningModal
    /\ showPasswordWarningModal' = FALSE
    /\ lastEvent' = [NoEvent EXCEPT !.kind = "cancel"]
    /\ UNCHANGED <<call, chatVars, streamVars, embeddingVars, unaryVars, ttsVars,
                   inputs, loading, getPending, requests, pending>>

\* lines 865-873: the confirm button
DialogConfirm ==
    /\ call = "console"
    /\ showPasswordWarningModal
    /\ showPasswordWarningModal' = FALSE
    /\ updateOption("PasswordLoginEnabled", "false", "confirm")
    /\ lastEvent' = [NoEvent EXCEPT !.kind = "confirm"]
    /\ UNCHANGED <<call, chatVars, streamVars, embeddingVars, unaryVars, ttsVars, getPending>>

----------------------------------------------------------------------------
(* One specification per entry point, and Spec for any call *)

NextChat == TranslateRequest

SpecChat == InitChat /\ [][NextChat]_vars

NextStream ==
    \/ ProducerScan
    \/ ProducerReadClosed
    \/ ClientDisconnect
    \/ StreamLoop
    \/ HandOffData
    \/ ConsumeFrame
    \/ HandOffStop
    \/ CloseBody

SpecStream == InitStream /\ [][NextStream]_vars

\* the steps of the goroutine of lines 317-330; a hand-off is a step of both
ProducerSteps == ProducerScan \/ ProducerReadClosed \/ HandOffData \/ HandOffStop

\* the steps of the handler's own goroutine
HandlerSteps == StreamLoop \/ HandOffData \/ ConsumeFrame \/ HandOffStop \/ CloseBody

\* the lines of the bodies of the fair runs: a data frame that decodes, one
\* that does not, and a blank line
FairBodyLines ==
    {"data:" \o r.json : r \in {x \in VendorReplies : x.value.Output.Text = "Hello!"}}
        \cup {"data:", ""}

InitStreamFair ==
    /\ InitStream
    /\ body \in {JoinLines(lines) : lines \in SeqsUpTo(FairBodyLines, MaxLines)}

\* The stream under Go's scheduler: a goroutine that can run does run.  The
\* client is free to stay or to go.
SpecStreamFair ==
    /\ InitStreamFair
    /\ [][NextStream]_vars
    /\ WF_vars(ProducerSteps)
    /\ WF_vars(HandlerSteps)

NextEmbedding == ConvertEmbedding

SpecEmbedding == InitEmbedding /\ [][NextEmbedding]_vars

NextUnary ==
    \/ AliHandlerRead
    \/ AliHandlerClose
    \/ AliHandlerUnmarshal
    \/ AliHandlerRespond
    \/ AliEmbeddingHandlerDecode
    \/ AliEmbeddingHandlerClose
    \/ AliEmbeddingHandlerRespond

SpecUnary == InitUnary /\ [][NextUnary]_vars

NextTTS ==
    \/ Dial
    \/ WriteJSON
    \/ ReadMessage
    \/ ReadEOF
    \/ ReadError
    \/ WriteChunk

SpecTTS == InitTTS /\ [][NextTTS]_vars

NextConsole ==
    \/ GetOptionsReply
    \/ handleInputChange
    \/ UpdateReply
    \/ DialogClose
    \/ DialogCancel
    \/ DialogConfirm

SpecConsole == InitConsole /\ [][NextConsole]_vars

Init == InitChat \/ InitStream \/ InitEmbedding \/ InitUnary \/ InitTTS \/ InitConsole

Next == NextChat \/ NextStream \/ NextEmbedding \/ NextUnary \/ NextTTS \/ NextConsole

Spec == Init /\ [][Next]_vars

----------------------------------------------------------------------------
(* Properties of requestOpenAI2Ali *)

Translated == call = "chat" /\ rpc = "done"

NoSystem(Messages) == \A k \in DOMAIN Messages : Messages[k].Role # "system"

\* the input indices read into the slots of an AliInput, in slot order:
\* history user, history bot, ..., prompt
PairIxs(p) == IF p.bix = 0 THEN <<p.uix>> ELSE <<p.uix, p.bix>>

RECURSIVE HistoryIxs(_)
HistoryIxs(h) == IF h = <<>> THEN <<>> ELSE PairIxs(Head(h)) \o HistoryIxs(Tail(h))

SlotIxs(a) == HistoryIxs(a.History) \o (IF a.promptIx = 0 THEN <<>> ELSE <<a.promptIx>>)

NoIndexTwice(a) ==
    \A x, y \in DOMAIN SlotIxs(a) : x # y => SlotIxs(a)[x] # SlotIxs(a)[y]

\* message k is the user or bot text of some history pair
InSomePair(a, k) == \E j \in DOMAIN a.History : a.History[j].uix = k \/ a.History[j].bix = k

\* the history as it goes on the wire: the AliMessage fields only
WireHistory(a) == [j \in DOMAIN a.History |-> [User |-> a.History[j].User, Bot |-> a.History[j].Bot]]

\* C1 (as stated): a sequence of N >= 1 messages without a system message
\* yields exactly floor((N-1)/2) history pairs.
C1_PairCountAsStated ==
    (Translated /\ Len(request) >= 1 /\ NoSystem(request))
        => Len(aliRequest.History) = (Len(request) - 1) \div 2

\* C1 (amended): a sequence of N >= 1 messages without a system message
\* yields exactly floor(N/2) history pairs: (N-1)/2 for odd N, N/2 for even N.
C1_PairCount ==
    (Translated /\ Len(request) >= 1 /\ NoSystem(request))
        => Len(aliRequest.History) = Len(request) \div 2

C1_Witness ==
    /\ Translated /\ NoSystem(request)
    /\ Len(request) = 4
    /\ Len(aliRequest.History) = 2

\* C2: for an odd number N of messages, none of them system, the prompt is
\* the content of the last message and the last message is in no history pair.
C2_OddPrompt ==
    (Translated /\ NoSystem(request) /\ Len(request) % 2 = 1)
        => /\ aliRequest.Prompt = request[Len(request)].Content
           /\ aliRequest.promptIx = Len(request)
           /\ ~InSomePair(aliRequest, Len(request))

C2_Witness ==
    /\ Translated /\ NoSystem(request)
    /\ Len(request) = 3
    /\ request[2].Content # request[3].Content
    /\ aliRequest.Prompt = request[3].Content
    /\ Len(aliRequest.History) = 1

\* C3: for an even number N >= 2 of messages, none of them system, the bot
\* text of the last history pair is the content of the final message, and no
\* message index fills more than one slot (history user, history bot, prompt).
C3_EvenLastPair ==
    (Translated /\ NoSystem(request) /\ Len(request) >= 2 /\ Len(request) % 2 = 0)
        => /\ aliRequest.History # <<>>
           /\ LET last == aliRequest.History[Len(aliRequest.History)]
              IN  /\ last.Bot = request[Len(request)].Content
                  /\ last.bix = Len(request)
           /\ NoIndexTwice(aliRequest)

C3_Witness ==
    /\ Translated /\ NoSystem(request)
    /\ Len(request) = 4
    /\ request[3].Content # request[4].Content
    /\ aliRequest.History[2].Bot = request[4].Content
    /\ aliRequest.promptIx = 0

\* C4: every system message, at any position, yields a history pair whose
\* user text is its content and whose bot text is "Okay", and that pair does
\* not consume the following message.
C4_SystemPriming ==
    Translated =>
        \A k \in DOMAIN request :
            request[k].Role = "system" =>
                \E j \in DOMAIN aliRequest.History :
                    /\ aliRequest.History[j].uix = k
                    /\ aliRequest.History[j].User = request[k].Content
                    /\ aliRequest.History[j].Bot = "Okay"
                    /\ aliRequest.History[j].bix = 0

\* C5: when the final message has role user, the prompt is its content and
\* it is neither the user nor the bot text of a history pair.
C5_FinalUserIsPrompt ==
    (Translated /\ request # <<>> /\ request[Len(request)].Role = "user")
        => /\ aliRequest.Prompt = request[Len(request)].Content
           /\ aliRequest.promptIx = Len(request)
           /\ ~InSomePair(aliRequest, Len(request))

\* k leading system messages followed only by non-system messages
LeadingSystems(Messages, k) ==
    /\ k \in 0..Len(Messages)
    /\ \A x \in 1..k : Messages[x].Role = "system"
    /\ \A x \in (k + 1)..Len(Messages) : Messages[x].Role # "system"

\* the history C6 expects for k leading system messages and 2j+1 others
ExpectedHistory(Messages, k) ==
    [x \in 1..(k + (Len(Messages) - k - 1) \div 2) |->
        IF x <= k
        THEN [User |-> Messages[x].Content, Bot |-> "Okay"]
        ELSE [User |-> Messages[k + 2 * (x - k) - 1].Content,
              Bot  |-> Messages[k + 2 * (x - k)].Content]]

\* C6: k >= 0 leading system messages followed by an odd number of non-system
\* messages m1..m(2j+1) give the history {s1,Okay},...,{sk,Okay},{m1,m2},...,
\* {m(2j-1),m(2j)} in that order and the prompt m(2j+1), the last slot filled.
C6_LeadingSystemsThenTurns ==
    Translated =>
        \A k \in 0..Len(request) :
            (LeadingSystems(request, k) /\ (Len(request) - k) % 2 = 1)
                => /\ WireHistory(aliRequest) = ExpectedHistory(request, k)
                   /\ aliRequest.Prompt = request[Len(request)].Content
                   /\ aliRequest.promptIx = Len(request)
                   /\ \A x \in DOMAIN SlotIxs(aliRequest) : SlotIxs(aliRequest)[x] = x

\* Scenario A's shape: system, user, assistant, user
C6_Witness ==
    /\ Translated
    /\ Len(request) = 4
    /\ [x \in 1..4 |-> request[x].Role] = <<"system", "user", "assistant", "user">>
    /\ request[2].Content # request[3].Content
    /\ WireHistory(aliRequest) =
           <<[User |-> request[1].Content, Bot |-> "Okay"],
             [User |-> request[2].Content, Bot |-> request[3].Content]>>
    /\ aliRequest.Prompt = request[4].Content

----------------------------------------------------------------------------
(* Properties of aliStreamHandler *)

IsPrefixOf(s, t) == Len(s) <= Len(t) /\ SubSeq(t, 1, Len(s)) = s

Decodable(payload) == \E r \in VendorReplies : r.json = payload

TextOf(payload) == (CHOOSE r \in VendorReplies : r.json = payload).value.Output.Text

\* the received frames the consumer is through with
Handled == IF hpc = "process" THEN Len(received) - 1 ELSE Len(received)

Chunks == SelectSeq(written, LAMBDA f : f.kind = "chunk")

DoneCount == Len(SelectSeq(written, LAMBDA f : f.kind = "done"))

RECURSIVE ConcatDeltas(_)
ConcatDeltas(chunks) ==
    IF chunks = <<>> THEN "" ELSE Head(chunks).Content \o ConcatDeltas(Tail(chunks))

\* every payload of ap decodes, and each text extends the one before
Cumulative(ap) ==
    /\ \A j \in DOMAIN ap : Decodable(ap[j])
    /\ \A j \in DOMAIN ap : j > 1 => IsPrefixOf(TextOf(ap[j - 1]), TextOf(ap[j]))

\* C7: when the data frames of the body all decode and their texts S1..Sk
\* each extend the previous one, the deltas of the chunks written so far
\* concatenate to the text of the last frame handled, and to Sk once the
\* terminal frame is written.
C7_DeltasRebuildText ==
    LET ap == accepted
    IN  (call = "stream" /\ Cumulative(ap)) =>
            /\ ConcatDeltas(Chunks) = (IF Handled = 0 THEN "" ELSE TextOf(received[Handled]))
            /\ DoneCount > 0 =>
                  ConcatDeltas(Chunks) = (IF ap = <<>> THEN "" ELSE TextOf(ap[Len(ap)]))

\* Scenario B: cumulative "Hel", "Hello", "Hello!" give "Hel", "lo", "!", [DONE]
C7_Witness ==
    /\ call = "stream"
    /\ Len(written) = 4
    /\ Cumulative(accepted)
    /\ [j \in 1..4 |-> written[j].Content] = <<"Hel", "lo", "!", "[DONE]">>
    /\ written[3].FinishReason = <<"stop">>

\* C8: under every interleaving the consumer receives the data frames in the
\* order of their lines in the body, each once and none skipped, and the
\* chunks are written in that order: one per decodable frame handled.
C8_FramesInOrder ==
    LET ap == accepted
        ch == Chunks
    IN  call = "stream" =>
            /\ IsPrefixOf(received, ap)
            /\ \A x \in DOMAIN ch :
                  /\ ch[x].src \in 1..Handled
                  /\ Decodable(received[ch[x].src])
                  /\ x > 1 => ch[x - 1].src < ch[x].src
            /\ \A j \in 1..Handled :
                  Decodable(received[j]) => \E x \in DOMAIN ch : ch[x].src = j
            /\ DoneCount > 0 => received = ap

C8_Witness ==
    /\ call = "stream"
    /\ ret.returned
    /\ Len(received) = 3
    /\ received[1] # received[2]
    /\ received[2] # received[3]
    /\ Len(Chunks) = 3
    /\ received = accepted

\* C9: at most one terminal frame is ever written; it is written only after
\* every data frame of the body was received and handled, it is the last
\* thing written, and a call that returns without the client having gone
\* has written exactly one.
C9_OneTerminalFrame ==
    call = "stream" =>
        /\ DoneCount <= 1
        /\ DoneCount = 1 =>
              /\ written[Len(written)] = DoneFrame
              /\ received = accepted
              /\ Handled = Len(received)
              /\ ppc = "exit"
        /\ (ret.returned /\ ~clientGone) => DoneCount = 1

C9_Witness ==
    /\ call = "stream"
    /\ ret.returned /\ ~clientGone
    /\ Len(received) = 2
    /\ Len(written) = 3
    /\ written[3] = DoneFrame
    /\ written[1].kind = "chunk" /\ written[2].kind = "chunk"

\* the step in which the consumer is through with the frame it received
\* (lines 336-356)
FrameHandled == hpc = "process" /\ hpc' # "process"

\* C18: handling a frame whose payload does not decode writes nothing, leaves
\* lastResponseText and usage as they were and goes back to the loop; the
\* frames after it are still handled (one chunk per decodable frame) and a
\* call that returns without the client having gone has written the terminal
\* frame after all of them.
C18_BadFrameSkipped ==
    /\ [][(FrameHandled /\ ~Decodable(frame))
            => (hpc' = "loop" /\ UNCHANGED <<written, lastResponseText, usage>>)]_vars
    /\ [](call = "stream" /\ ret.returned /\ ~clientGone
            => /\ received = accepted
               /\ Len(Chunks) = Len(SelectSeq(accepted, Decodable))
               /\ written[Len(written)] = DoneFrame)

C18_Witness ==
    /\ call = "stream"
    /\ ret.returned /\ ~clientGone
    /\ Len(received) = 3
    /\ Decodable(received[1]) /\ ~Decodable(received[2]) /\ Decodable(received[3])
    /\ Len(written) = 3
    /\ written[1].src = 1 /\ written[2].src = 3
    /\ written[3] = DoneFrame

\* the AliChatResponse a decodable payload decodes to
ValueOf(payload) == (CHOOSE r \in VendorReplies : r.json = payload).value

\* C19: handling a decoded frame with a non-zero input or output token count
\* sets usage to {input, output, input + output}; handling a decoded frame
\* whose counts are both zero leaves usage unchanged.
C19_UsageOverwrite ==
    [][(FrameHandled /\ Decodable(frame)) =>
          LET u == ValueOf(frame).Usage
          IN  IF u.InputTokens # 0 \/ u.OutputTokens # 0
              THEN usage' = [PromptTokens |-> u.InputTokens,
                             CompletionTokens |-> u.OutputTokens,
                             TotalTokens |-> u.InputTokens + u.OutputTokens]
              ELSE usage' = usage]_vars

\* the usage the frames of a body add up to: that of the last decodable
\* frame reporting output tokens
RECURSIVE UsageOfFrames(_, _)
UsageOfFrames(payloads, u) ==
    IF payloads = <<>> THEN u
    ELSE LET p == Head(payloads)
         IN  UsageOfFrames(Tail(payloads),
                 IF Decodable(p) /\ ValueOf(p).Usage.OutputTokens # 0
                 THEN [PromptTokens |-> ValueOf(p).Usage.InputTokens,
                       CompletionTokens |-> ValueOf(p).Usage.OutputTokens,
                       TotalTokens |-> ValueOf(p).Usage.InputTokens
                                          + ValueOf(p).Usage.OutputTokens]
                 ELSE u)

\* C20 (as stated): once the terminal frame is written, the handler returns
\* the accumulated usage and no error, also when closing the body fails.
C20_UsageReturnedAsStated ==
    (call = "stream" /\ ret.returned /\ DoneCount = 1)
        => /\ ret.err = ""
           /\ ret.hasUsage
           /\ ret.usage = UsageOfFrames(accepted, ZeroUsage)

\* C20 (amended): once the terminal frame is written, the handler returns
\* the accumulated usage and no error when closing the body succeeds, and the
\* error close_response_body_failed (status 500) with no usage when it fails.
C20_UsageReturned ==
    (call = "stream" /\ ret.returned /\ DoneCount = 1)
        => \/ /\ ret.err = ""
              /\ ret.hasUsage
              /\ ret.usage = UsageOfFrames(accepted, ZeroUsage)
           \/ /\ ret.err = "close_response_body_failed"
              /\ ret.status = 500
              /\ ~ret.hasUsage

C20_Witness ==
    /\ call = "stream"
    /\ ret.returned /\ DoneCount = 1
    /\ ret.err = "" /\ ret.hasUsage
    /\ ret.usage.TotalTokens = 5
    /\ Len(accepted) = 2


----------------------------------------------------------------------------
(* Properties of embeddingResponseAli2OpenAI *)

Converted == call = "embedding" /\ epc = "done"

\* the text_index values of the reply are a permutation of 0..n-1
IndexPermutation(Embeddings) ==
    {Embeddings[x].TextIndex : x \in DOMAIN Embeddings} = 0..(Len(Embeddings) - 1)

\* C10: when the text_index values of the reply are a permutation of 0..n-1,
\* the vector reported with text_index j is at position j of the returned
\* list (position j is Data[j + 1]), whatever the order of the vendor's array.
C10_VectorAtReportedIndex ==
    (Converted /\ IndexPermutation(aliEmbedding.Output.Embeddings)) =>
        \A x \in DOMAIN aliEmbedding.Output.Embeddings :
            LET item == aliEmbedding.Output.Embeddings[x]
            IN  /\ item.TextIndex + 1 \in DOMAIN embedding.Data
                /\ embedding.Data[item.TextIndex + 1].Embedding = item.Embedding

----------------------------------------------------------------------------
(* Properties of aliHandler and aliEmbeddingHandler *)

\* the reply the body of the vendor's response decodes to
ReplyOf(text) ==
    IF handler = "aliHandler"
    THEN (CHOOSE r \in VendorReplies : r.json = text).value
    ELSE (CHOOSE r \in EmbeddingReplies : r.json = text).value

UnaryReturned == call = "unary" /\ upc = "returned" /\ uret.returned

\* the envelope of a vendor error: message, type = code, param = request id
\* and the vendor's HTTP status
VendorEnvelope(reply, statusCode) ==
    [isNil |-> FALSE, Message |-> reply.Message, Type |-> reply.Code,
     Param |-> reply.RequestId, Code |-> reply.Code, StatusCode |-> statusCode]

VendorErrorReturned ==
    /\ uret.err = VendorEnvelope(ReplyOf(resp.Body), resp.StatusCode)
    /\ ~uret.hasUsage
    /\ cHeader = NoHeader
    /\ cWrites = <<>>

\* C11 (as stated): whenever the decoded vendor reply has a non-empty error
\* code, either handler returns the envelope {message, type = code = vendor
\* code, param = request id, status = the vendor's HTTP status} and has
\* written no header and no body.
C11_VendorErrorAsStated ==
    (UnaryReturned /\ vendorReply.Code # "") => VendorErrorReturned

\* C11 (amended): the same, for the calls in which closing the body does
\* not fail: aliEmbeddingHandler closes the body after decoding and returns
\* close_response_body_failed when that fails.
C11_VendorError ==
    (UnaryReturned /\ vendorReply.Code # ""
        /\ "close" \notin faults) => VendorErrorReturned

C11_Witness ==
    /\ UnaryReturned
    /\ handler = "aliEmbeddingHandler"
    /\ respClosed = 1
    /\ vendorReply.Code = "InvalidParameter"
    /\ uret.err.Type = "InvalidParameter"
    /\ uret.err.Message = "bad input"
    /\ uret.err.Param = "r3"
    /\ uret.err.StatusCode = 400

\* C12: when aliHandler has read, closed and decoded the reply without fault
\* and its error code is empty, it has set the vendor's status code and made
\* exactly one write, of a body with one choice {index 0, role "assistant",
\* content = output text, finish_reason as the vendor gave it} and usage
\* {input, output, input + output}, and it returns that usage and no error.
C12_SuccessBody ==
    (UnaryReturned /\ handler = "aliHandler"
        /\ faults \cap {"read", "close", "decode"} = {}
        /\ vendorReply.Code = "")
    => LET reply == ReplyOf(resp.Body)
           expected == [PromptTokens |-> reply.Usage.InputTokens,
                        CompletionTokens |-> reply.Usage.OutputTokens,
                        TotalTokens |-> reply.Usage.InputTokens + reply.Usage.OutputTokens]
       IN  /\ cHeader.written
           /\ cHeader.StatusCode = resp.StatusCode
           /\ Len(cWrites) = 1
           /\ Len(cWrites[1].data.Choices) = 1
           /\ cWrites[1].data.Choices[1].Index = 0
           /\ cWrites[1].data.Choices[1].Message.Role = "assistant"
           /\ cWrites[1].data.Choices[1].Message.Content = reply.Output.Text
           /\ cWrites[1].data.Choices[1].FinishReason = reply.Output.FinishReason
           /\ cWrites[1].data.Usage = expected
           /\ uret.err.isNil
           /\ uret.hasUsage
           /\ uret.usage = expected

C12_Witness ==
    /\ UnaryReturned /\ handler = "aliHandler"
    /\ faults = {}
    /\ resp.StatusCode = 200
    /\ Len(cWrites) = 1
    /\ cWrites[1].data.Choices[1].Message.Content = "Bye"
    /\ cWrites[1].data.Choices[1].FinishReason = ""
    /\ uret.usage = [PromptTokens |-> 3, CompletionTokens |-> 0, TotalTokens |-> 3]

\* the errors the handlers return for a failing stage
StageErrors ==
    {"read_response_body_failed", "close_response_body_failed",
     "unmarshal_response_body_failed", "marshal_response_body_failed"}

\* C17: a call of aliHandler or aliEmbeddingHandler in which reading,
\* closing or writing failed returns an internal error tagged with a stage,
\* and no usage.
C17_FaultIsError ==
    (UnaryReturned /\ faults \cap {"read", "close", "write"} # {})
        => /\ ~uret.err.isNil
           /\ uret.err.Code \in StageErrors
           /\ ~uret.hasUsage

----------------------------------------------------------------------------
(* Properties of aliTTSHandler *)

TTSReturned == call = "tts" /\ tpc = "returned" /\ tret.returned

\* the writes that reached the client
Delivered == SelectSeq(audioWrites, LAMBDA w : ~w.failed)

\* the byte ranges a sequence of writes covers: a write that goes on where
\* the one before it ended, in the same message, extends its range
RECURSIVE Coalesce(_, _)
Coalesce(writes, runs) ==
    IF writes = <<>> THEN runs
    ELSE LET w == Head(writes)
             n == Len(runs)
         IN  IF n > 0 /\ runs[n].ord = w.ord /\ runs[n].hi = w.lo
             THEN Coalesce(Tail(writes), [runs EXCEPT ![n].hi = w.hi])
             ELSE Coalesce(Tail(writes),
                           Append(runs, [ord |-> w.ord, lo |-> w.lo, hi |-> w.hi]))

\* the byte ranges of the binary messages read, in arrival order: all of
\* each message, an empty message giving none
RECURSIVE PayloadRuns(_, _)
PayloadRuns(log, k) ==
    IF k > Len(log) THEN <<>>
    ELSE IF log[k].messageType = "BinaryMessage" /\ log[k].size > 0
    THEN <<[ord |-> k, lo |-> 0, hi |-> log[k].size]>> \o PayloadRuns(log, k + 1)
    ELSE PayloadRuns(log, k + 1)

\* C13: while no client write has failed, whenever the handler is between
\* messages or has returned, the chunks written to the client, put end to
\* end, are exactly the payloads of the binary messages read, in arrival
\* order, and no chunk is longer than chunkSize.
C13_AudioPassThrough ==
    (call = "tts" /\ tpc \in {"read", "returned"}
        /\ \A k \in 1..Len(audioWrites) : ~audioWrites[k].failed)
    => /\ Coalesce(audioWrites, <<>>) = PayloadRuns(readLog, 1)
       /\ \A k \in 1..Len(audioWrites) :
             /\ audioWrites[k].lo < audioWrites[k].hi
             /\ audioWrites[k].hi - audioWrites[k].lo <= chunkSize

C13_Witness ==
    /\ TTSReturned
    /\ Len(readLog) = 3
    /\ readLog[1].messageType = "BinaryMessage" /\ readLog[1].size = 2500
    /\ readLog[2].messageType = "BinaryMessage" /\ readLog[2].size = 0
    /\ readLog[3].messageType = "BinaryMessage" /\ readLog[3].size = 1024
    /\ Len(audioWrites) = 4
    /\ \A k \in 1..4 : ~audioWrites[k].failed
    /\ audioWrites[3] = [ord |-> 1, lo |-> 2048, hi |-> 2500, failed |-> FALSE]
    /\ audioWrites[4] = [ord |-> 3, lo |-> 0, hi |-> 1024, failed |-> FALSE]

\* what a text message decodes to
WSSValueOf(m) == (CHOOSE r \in WSSReplies : r.json = m.data).value

IsFinished(m) ==
    m.messageType = "TextMessage" /\ WSSValueOf(m).Header.Event = "task-finished"

\* the handler returned after reading a task-finished message, with that
\* message's character count as the usage total
FinishedExit ==
    /\ readLog # <<>>
    /\ IsFinished(readLog[Len(readLog)])
    /\ tret.usage.TotalTokens = WSSValueOf(readLog[Len(readLog)]).Payload.Usage.Characters

\* C14 (as stated): the handler returns a nil error and a usage only after
\* it read a text message whose event is "task-finished", and the usage
\* total is that message's character count.
C14_SuccessOnlyFinishedAsStated ==
    (TTSReturned /\ tret.err.isNil) => (tret.hasUsage /\ FinishedExit)

\* C14 (amended): the handler returns a nil error and a usage only after it
\* read a task-finished text message, the usage total being that message's
\* character count, or after the socket reported the end of the stream with
\* no task-finished message read, the usage total then being 0.
C14_SuccessOnlyFinished ==
    (TTSReturned /\ tret.err.isNil)
    => /\ tret.hasUsage
       /\ \/ FinishedExit /\ ~sawEOF
          \/ /\ sawEOF
             /\ \A k \in 1..Len(readLog) : ~IsFinished(readLog[k])
             /\ tret.usage.TotalTokens = 0

C14_Witness ==
    /\ TTSReturned /\ tret.err.isNil /\ tret.hasUsage
    /\ Len(readLog) = 2
    /\ readLog[1].messageType = "BinaryMessage"
    /\ IsFinished(readLog[2])
    /\ tret.usage.TotalTokens = 12
    /\ socket # <<>>

\* C15: when the socket reports the end of the stream and no task-finished
\* message was read, the handler returns no error and a usage whose total is
\* 0, and every binary message read was forwarded whole.
C15_EndOfStream ==
    (TTSReturned /\ sawEOF)
    => /\ tret.err.isNil
       /\ tret.hasUsage
       /\ tret.usage.TotalTokens = 0
       /\ \A k \in 1..Len(readLog) : ~IsFinished(readLog[k])
       /\ Coalesce(Delivered, <<>>) = PayloadRuns(readLog, 1)

C15_Witness ==
    /\ TTSReturned /\ sawEOF
    /\ tret.err.isNil
    /\ Len(readLog) = 2
    /\ readLog[1].messageType = "TextMessage"
    /\ readLog[2].messageType = "BinaryMessage" /\ readLog[2].size = 2500
    /\ Len(audioWrites) = 3

\* C16: a call that returned after the dial gave a connection has closed it
\* exactly once; a call that is still running has not closed it, and a call
\* whose dial failed has no connection and closed none.
C16_ClosedOnce ==
    (call = "tts")
    => connCloses = (IF tpc = "returned" /\ connOpened THEN 1 ELSE 0)

C16_Witness ==
    /\ TTSReturned
    /\ connOpened /\ connCloses = 1
    /\ tret.err.Code = "write_audio_failed"
    /\ Len(audioWrites) = 2

----------------------------------------------------------------------------
(* Further properties of aliStreamHandler *)

\* C21: the finish reason of every chunk written is unset exactly when the
\* frame it was made from carries the finish reason "null"; for every other
\* value, the empty string of a frame without one included, it is set to
\* that value.
C21_FinishReasonMapped ==
    (call = "stream") =>
        \A k \in 1..Len(written) :
            written[k].kind = "chunk" =>
                LET reason == ValueOf(received[written[k].src]).Output.FinishReason
                IN  /\ (written[k].FinishReason = <<>>) <=> (reason = "null")
                    /\ reason # "null" => written[k].FinishReason = <<reason>>

C21_Witness ==
    /\ call = "stream"
    /\ Len(written) >= 3
    /\ written[1].kind = "chunk" /\ written[1].FinishReason = <<>>
    /\ written[2].kind = "chunk" /\ written[2].FinishReason = <<"">>
    /\ written[3].kind = "chunk" /\ written[3].FinishReason = <<"stop">>

\* the step in which scanner.Scan() yields a line (lines 318-319)
LineScanned == ppc = "scan" /\ unread' # unread

\* C22: a scanned line goes to the send of line 327 if and only if it has
\* at least 5 characters of which the first 5 are "data:", the payload being
\* the line without them; any other line takes the producer back to the
\* scanner.  What the consumer receives is what the producer was sending.
C22_DataLinesOnly ==
    /\ [][LineScanned =>
            LET line == ScannerScan(unread).token
                kept == Len(line) >= 5 /\ SubSeq(line, 1, 5) = "data:"
            IN  /\ (ppc' = "send") <=> kept
                /\ kept => /\ "data:" \o data' = line
                           /\ Len(data') = Len(line) - 5
                /\ ~kept => ppc' = "scan"]_vars
    /\ [][received' # received
            => (ppc = "send" /\ received' = Append(received, data))]_vars

C22_Witness ==
    /\ call = "stream"
    /\ body = "event:x\ndata:"
    /\ unread = ""
    /\ received = <<"">>

NoNewline(s) == \A i \in 1..Len(s) : SubSeq(s, i, i) # "\n"

\* the line a scan step yielded
LineYielded == IF ppc' = "send" THEN "data:" \o data' ELSE data'

\* C23: the scanner reads the body from its start; each line it yields is
\* the part of the unread body up to the next newline, without the newline,
\* or the non-empty rest of a body with no newline left; it reports the end
\* only when nothing is left unread.
C23_LinesBetweenNewlines ==
    /\ [](call = "stream" =>
            /\ Len(unread) <= Len(body)
            /\ SubSeq(body, Len(body) - Len(unread) + 1, Len(body)) = unread)
    /\ [][LineScanned =>
            /\ NoNewline(LineYielded)
            /\ \/ unread = LineYielded \o "\n" \o unread'
               \/ unread = LineYielded /\ unread' = "" /\ LineYielded # ""]_vars
    /\ [][(ppc = "scan" /\ ppc' = "stop" /\ ~bodyClosed) => unread = ""]_vars

C23_Witness ==
    /\ call = "stream"
    /\ body = "\nevent:x"
    /\ unread = ""
    /\ data = "event:x"
    /\ ppc = "scan"

\* a step of the producer goroutine: it moves on, consumes body or sets its
\* local data
ProducerStep == ppc' # ppc \/ unread' # unread \/ data' # data

\* C25: lastResponseText and usage change only in the consumer's handling
\* of a frame, a step in which the producer does nothing; no step of the
\* producer changes either of them.
C25_ConsumerOwnsState ==
    /\ [][(lastResponseText' # lastResponseText \/ usage' # usage)
            => (FrameHandled /\ ~ProducerStep)]_vars
    /\ [][ProducerStep => UNCHANGED <<lastResponseText, usage>>]_vars

C25_Witness ==
    /\ call = "stream"
    /\ ppc = "send"
    /\ hpc = "select"
    /\ lastResponseText = "Hello!"
    /\ usage.TotalTokens = 5
    /\ Len(received) = 1

\* every accepted frame and the stop signal were handed over, the terminal
\* frame was written, the goroutine ended and the handler returned
StreamCompleted ==
    /\ hpc = "returned" /\ ret.returned
    /\ ppc = "exit"
    /\ received = accepted
    /\ DoneCount = 1

\* C26: in every fair run of aliStreamHandler in which the client stays,
\* the call completes: all accepted frames and the stop signal are handed
\* over, the loop ends, the producer goroutine ends and the handler returns.
C26_StreamTerminates == <>(clientGone \/ StreamCompleted)

C26_Witness ==
    /\ call = "stream"
    /\ ~clientGone
    /\ StreamCompleted
    /\ Len(received) = 3
    /\ Len(written) = 4

\* the producer waits in the send of line 327 or of line 329
ProducerSending == ppc \in {"send", "stop"}

\* C27: when the client is gone the loop ends with no step of the producer
\* and nothing written; a handler that has returned while the producer is in
\* one of its sends has returned because the client went, has written no
\* terminal frame, and leaves the producer in that send for ever: no
\* hand-off is possible any more.
C27_ProducerLeftBlocked ==
    /\ [][(hpc = "loop" /\ hpc' = "close")
            => (clientGone /\ UNCHANGED <<ppc, data, unread, written>>)]_vars
    /\ []((call = "stream" /\ hpc = "returned" /\ ProducerSending)
            => /\ clientGone
               /\ DoneCount = 0
               /\ ~ENABLED (HandOffData \/ HandOffStop))
    /\ [][(hpc = "returned" /\ ProducerSending) => ppc' = ppc]_vars

C27_Witness ==
    /\ call = "stream"
    /\ hpc = "returned" /\ ret.returned
    /\ clientGone
    /\ ppc = "send"
    /\ unread # ""
    /\ DoneCount = 0

\* the frames received so far that decode to a reply with an error code
ErrorFrames ==
    {k \in 1..Len(received) :
        Decodable(received[k]) /\ ValueOf(received[k]).Code # ""}

\* C28: no chunk is written for a frame that decodes to a reply with a
\* non-empty error code, and a call that received such a frame and returned
\* has returned an error carrying the vendor's code, and no usage.
C28_StreamedErrorEnvelope ==
    (call = "stream") =>
        /\ \A k \in 1..Len(written) :
              written[k].kind = "chunk" => written[k].src \notin ErrorFrames
        /\ (ret.returned /\ ErrorFrames # {}) =>
              /\ \E k \in ErrorFrames : ret.err = ValueOf(received[k]).Code
              /\ ~ret.hasUsage

----------------------------------------------------------------------------
(* Further properties of aliHandler *)

\* the order of aliHandler's steps; each may also end the call
AliHandlerOrder ==
    {<<"read", "close">>, <<"close", "unmarshal">>, <<"unmarshal", "respond">>,
     <<"read", "returned">>, <<"close", "returned">>, <<"unmarshal", "returned">>,
     <<"respond", "returned">>}

\* the error that reports a failed step
StageError(tag) ==
    [isNil |-> FALSE, Message |-> "", Type |-> "", Param |-> "", Code |-> tag,
     StatusCode |-> 500]

NothingWritten == cHeader = NoHeader /\ cWrites = <<>>

NothingDecoded == vendorReply = AliChatResponse("", "", 0, 0, "", "", "")

\* C24: aliHandler reads the body, closes it, decodes it, tests the error
\* code and then encodes and writes, in this order.  The first of read,
\* close and decode that fails ends the call with its own tag and status
\* 500 and no usage; no later step has run (a failed read leaves the body
\* unclosed and undecoded, a failed close leaves it undecoded), each step has
\* run at most once and nothing was written to the client.
C24_StepsInOrder ==
    /\ [][(call = "unary" /\ handler = "aliHandler" /\ upc' # upc)
            => <<upc, upc'>> \in AliHandlerOrder]_vars
    /\ []((call = "unary" /\ handler = "aliHandler") =>
            /\ respClosed <= 1
            /\ Len(cWrites) <= 1
            /\ upc \in {"close", "unmarshal", "respond"} => responseBody = resp.Body
            /\ upc \in {"unmarshal", "respond"} => respClosed = 1
            /\ upc \in {"read", "close", "unmarshal"} => NothingDecoded /\ NothingWritten
            /\ (upc = "returned" /\ "read" \in faults) =>
                   /\ uret = [returned |-> TRUE, err |-> StageError("read_response_body_failed"),
                              hasUsage |-> FALSE, usage |-> ZeroUsage]
                   /\ respClosed = 0 /\ NothingDecoded /\ NothingWritten
            /\ (upc = "returned" /\ "close" \in faults) =>
                   /\ uret = [returned |-> TRUE, err |-> StageError("close_response_body_failed"),
                              hasUsage |-> FALSE, usage |-> ZeroUsage]
                   /\ respClosed = 1 /\ NothingDecoded /\ NothingWritten
            /\ (upc = "returned" /\ "decode" \in faults) =>
                   /\ uret = [returned |-> TRUE,
                              err |-> StageError("unmarshal_response_body_failed"),
                              hasUsage |-> FALSE, usage |-> ZeroUsage]
                   /\ respClosed = 1 /\ NothingDecoded /\ NothingWritten)

C24_Witness ==
    /\ UnaryReturned /\ handler = "aliHandler"
    /\ faults = {"close"}
    /\ respClosed = 1
    /\ responseBody = resp.Body
    /\ responseBody \notin MalformedBodies
    /\ uret.err.Code = "close_response_body_failed"
    /\ uret.err.StatusCode = 500
    /\ NothingWritten

----------------------------------------------------------------------------
(* Further properties of aliTTSHandler *)

\* the client writes made for the k-th message read
WritesOf(k) == SelectSeq(audioWrites, LAMBDA w : w.ord = k)

\* the handler is through with the k-th message read and no write of it failed
Forwarded(k) ==
    /\ k \in 1..Len(readLog)
    /\ k = Len(readLog) => tpc \in {"read", "returned"}
    /\ \A j \in 1..Len(audioWrites) : audioWrites[j].ord = k => ~audioWrites[j].failed

CeilDiv(n, d) == (n + d - 1) \div d

\* C29: a binary message of length L that was forwarded took exactly
\* ceil(L/1024) client writes, all but the last of exactly 1024 bytes and the
\* last of at most 1024 (none for L = 0); no write is ever longer than 1024
\* bytes and none is made for a text message.
C29_ChunkCount ==
    (call = "tts") =>
        /\ \A j \in 1..Len(audioWrites) :
              /\ audioWrites[j].hi - audioWrites[j].lo <= chunkSize
              /\ readLog[audioWrites[j].ord].messageType = "BinaryMessage"
        /\ \A k \in 1..Len(readLog) :
              Forwarded(k) =>
                  LET w == WritesOf(k)
                  IN  IF readLog[k].messageType = "BinaryMessage"
                      THEN /\ Len(w) = CeilDiv(readLog[k].size, 1024)
                           /\ \A j \in 1..Len(w) :
                                 /\ 0 < w[j].hi - w[j].lo
                                 /\ w[j].hi - w[j].lo <= 1024
                                 /\ j < Len(w) => w[j].hi - w[j].lo = 1024
                      ELSE Len(w) = 0

C29_Witness ==
    /\ call = "tts" /\ tpc = "read"
    /\ Len(readLog) = 3
    /\ readLog[1].messageType = "TextMessage"
    /\ readLog[2].messageType = "BinaryMessage" /\ readLog[2].size = 2500
    /\ readLog[3].messageType = "TextMessage"
    /\ Len(audioWrites) = 3
    /\ audioWrites[1].hi - audioWrites[1].lo = 1024
    /\ audioWrites[2].hi - audioWrites[2].lo = 1024
    /\ audioWrites[3].hi - audioWrites[3].lo = 452
    /\ Forwarded(2)

TTSFailure(tag) ==
    tret = [returned |-> TRUE,
            err |-> [isNil |-> FALSE, Message |-> "", Type |-> "", Param |-> "",
                     Code |-> tag, StatusCode |-> 500],
            hasUsage |-> FALSE, usage |-> ZeroUsage]

\* the handler returned after the connection was opened and the request
\* sent, without a task-finished message, an end of stream or a failed
\* client write: a read of the socket failed
ReadFailed ==
    /\ TTSReturned /\ sent # <<>>
    /\ ~sawEOF
    /\ readLog = <<>> \/ ~IsFinished(readLog[Len(readLog)])
    /\ \A j \in 1..Len(audioWrites) : ~audioWrites[j].failed

\* C30: a call whose request could not be written returns the error
\* wss_write_msg_failed having read and written nothing; a call in which a
\* read of the socket failed returns wss_read_msg_failed; a failed client
\* write is the last write of the call, which has returned write_audio_failed;
\* each with status 500 and no usage.  Once returned, the handler writes no
\* chunk and reads no message.
C30_FailuresAreFatal ==
    /\ []((call = "tts") =>
            /\ (TTSReturned /\ connOpened /\ sent = <<>>) =>
                   /\ TTSFailure("wss_write_msg_failed")
                   /\ readLog = <<>> /\ audioWrites = <<>>
            /\ ReadFailed => TTSFailure("wss_read_msg_failed")
            /\ \A j \in 1..Len(audioWrites) :
                   audioWrites[j].failed =>
                       /\ j = Len(audioWrites)
                       /\ TTSReturned
                       /\ TTSFailure("write_audio_failed"))
    /\ [][(call = "tts" /\ tpc = "returned")
            => UNCHANGED <<audioWrites, readLog, socket, tret>>]_vars

C30_Witness ==
    /\ TTSReturned
    /\ TTSFailure("write_audio_failed")
    /\ Len(readLog) = 1 /\ readLog[1].size = 2500
    /\ Len(audioWrites) = 1 /\ audioWrites[1].failed
    /\ socket # <<>>

----------------------------------------------------------------------------
(* Further properties of embeddingResponseAli2OpenAI *)

\* C31: the returned list has as many items as the vendor reply has
\* embeddings; item x carries the x-th vendor vector unchanged with an index
\* equal to that vector's text_index; the usage has the vendor's total and
\* prompt and completion counts of 0.
C31_EmbeddingItems ==
    Converted =>
        /\ Len(embedding.Data) = Len(aliEmbedding.Output.Embeddings)
        /\ \A x \in DOMAIN embedding.Data :
              /\ embedding.Data[x].Embedding = aliEmbedding.Output.Embeddings[x].Embedding
              /\ embedding.Data[x].Index = aliEmbedding.Output.Embeddings[x].TextIndex
        /\ embedding.Usage.TotalTokens = aliEmbedding.Usage.TotalTokens
        /\ embedding.Usage.PromptTokens = 0
        /\ embedding.Usage.CompletionTokens = 0

C31_Witness ==
    /\ Converted
    /\ Len(embedding.Data) = 3
    /\ embedding.Data[1].Index = 2 /\ embedding.Data[1].Embedding = <<9>>
    /\ embedding.Data[2].Index = 0 /\ embedding.Data[2].Embedding = <<1, 2>>
    /\ embedding.Data[3].Index = 1
    /\ embedding.Usage.TotalTokens = 7

----------------------------------------------------------------------------
(* Properties of the usage record of a chat call *)

UsageAddsUp(u) == u.TotalTokens = u.PromptTokens + u.CompletionTokens

\* C32: in every state of a chat call the usage record has
\* total_tokens = prompt_tokens + completion_tokens: the accumulator of
\* aliStreamHandler and the usage it returns, and the usage of the body
\* aliHandler writes and the usage it returns.
C32_TotalIsSum ==
    /\ (call = "stream") => UsageAddsUp(usage) /\ UsageAddsUp(ret.usage)
    /\ (call = "unary" /\ handler = "aliHandler") =>
          /\ UsageAddsUp(uret.usage)
          /\ \A x \in DOMAIN cWrites : UsageAddsUp(cWrites[x].data.Usage)

C32_Witness ==
    /\ call = "stream"
    /\ Len(received) = 3
    /\ \A x \in 1..3 : Decodable(received[x])
    /\ ValueOf(received[1]).Usage.OutputTokens = 0
    /\ ValueOf(received[2]).Usage.OutputTokens = 2
    /\ ValueOf(received[3]).Usage.OutputTokens = 0
    /\ hpc = "returned"
    /\ ret.hasUsage /\ ret.usage.PromptTokens = 3 /\ ret.usage.TotalTokens = 5

----------------------------------------------------------------------------
(* Index ranges *)

\* C33: every index the adapter uses is in range.  The messages
\* requestOpenAI2Ali reads for a pair or for the prompt are messages of the
\* request, the bot text of a pair coming from the message after its user
\* text; the producer strips 5 characters only from a line that has at least
\* 5; every chunk the speech handler writes lies inside the frame it was
\* read from.
C33_IndicesInRange ==
    /\ []((call = "chat" /\ rpc = "done") =>
            /\ aliRequest.promptIx \in 0..Len(request)
            /\ \A x \in DOMAIN aliRequest.History :
                  LET pair == aliRequest.History[x]
                  IN  /\ pair.uix \in 1..Len(request)
                      /\ pair.bix \in {0, pair.uix + 1}
                      /\ pair.bix <= Len(request))
    /\ [][(LineScanned /\ ppc' = "send") =>
            /\ Len(ScannerScan(unread).token) >= 5
            /\ Len(data') = Len(ScannerScan(unread).token) - 5]_vars
    /\ [](call = "tts" =>
            \A j \in 1..Len(audioWrites) :
                /\ 0 <= audioWrites[j].lo
                /\ audioWrites[j].lo < audioWrites[j].hi
                /\ audioWrites[j].hi <= readLog[audioWrites[j].ord].size)

C33_Witness ==
    /\ call = "tts" /\ tpc = "read"
    /\ Len(readLog) = 1 /\ readLog[1].size = 2500
    /\ Len(audioWrites) = 3
    /\ audioWrites[3].lo = 2048 /\ audioWrites[3].hi = 2500
    /\ ~audioWrites[3].failed

----------------------------------------------------------------------------
(* Further properties of requestOpenAI2Ali *)

\* the text of the slot input message k was read into
SlotTextOk(a, Messages) ==
    /\ \A j \in DOMAIN a.History :
          /\ a.History[j].uix \in DOMAIN Messages
          /\ a.History[j].User = Messages[a.History[j].uix].Content
          /\ IF a.History[j].bix = 0
             THEN a.History[j].Bot = "Okay"
             ELSE /\ a.History[j].bix \in DOMAIN Messages
                  /\ a.History[j].Bot = Messages[a.History[j].bix].Content
    /\ IF a.promptIx = 0
       THEN a.Prompt = ""
       ELSE /\ a.promptIx \in DOMAIN Messages
            /\ a.Prompt = Messages[a.promptIx].Content

\* C34: whatever the roles, the slots filled from input messages (user text,
\* bot text, ..., prompt), read in history order and then the prompt, are
\* filled from messages 1, 2, ..., N in this order, each message once, and
\* each slot holds the content of its message.
C34_EveryMessageOnce ==
    Translated =>
        /\ Len(SlotIxs(aliRequest)) = Len(request)
        /\ \A x \in DOMAIN SlotIxs(aliRequest) : SlotIxs(aliRequest)[x] = x
        /\ SlotTextOk(aliRequest, request)

C34_Witness ==
    /\ Translated
    /\ Len(request) = 5
    /\ [x \in 1..5 |-> request[x].Role] = <<"user", "system", "system", "assistant", "user">>
    /\ Len(aliRequest.History) = 3
    /\ aliRequest.History[1].bix = 2
    /\ aliRequest.History[2].bix = 0
    /\ aliRequest.History[3].bix = 5
    /\ aliRequest.promptIx = 0

----------------------------------------------------------------------------
(* The pair of values a handler returns *)

\* C35: a handler that has returned has returned either an error and no
\* usage record or a usage record and no error, and its result does not
\* change afterwards: aliStreamHandler, aliHandler and aliEmbeddingHandler,
\* aliTTSHandler.
C35_ErrorOrUsage ==
    /\ []((call = "stream" /\ hpc = "returned") =>
            /\ ret.returned
            /\ (ret.err # "") <=> ~ret.hasUsage)
    /\ []((call = "unary" /\ upc = "returned") =>
            /\ uret.returned
            /\ ~uret.err.isNil <=> ~uret.hasUsage)
    /\ []((call = "tts" /\ tpc = "returned") =>
            /\ tret.returned
            /\ ~tret.err.isNil <=> ~tret.hasUsage)
    /\ []((call = "stream" /\ hpc # "returned") => ~ret.returned)
    /\ []((call = "unary" /\ upc # "returned") => ~uret.returned)
    /\ []((call = "tts" /\ tpc # "returned") => ~tret.returned)
    /\ [][(ret.returned => ret' = ret) /\ (uret.returned => uret' = uret)
            /\ (tret.returned => tret' = tret)]_vars

C35_Witness ==
    /\ call = "unary" /\ handler = "aliEmbeddingHandler"
    /\ upc = "returned"
    /\ uret.err.Code = "unmarshal_response_body_failed"
    /\ uret.err.StatusCode = 500
    /\ ~uret.hasUsage

----------------------------------------------------------------------------
(* The vendor response body of aliHandler and aliEmbeddingHandler *)

\* C36: when aliHandler or aliEmbeddingHandler has returned, on whatever
\* path, Close has been called on the vendor response body.
C36_BodyClosedOnExit ==
    UnaryReturned => respClosed >= 1

----------------------------------------------------------------------------
(* The chunk of a decoded frame *)

\* C37: handling a frame that decodes appends exactly one chunk to what the
\* client was sent, also when the delta is empty; its delta is the frame's
\* text without the previously seen text when the text starts with it, and
\* the whole text otherwise; the tracker becomes the frame's text.
C37_OneChunkPerFrame ==
    [][(FrameHandled /\ Decodable(frame)) =>
          LET text == TextOf(frame)
          IN  /\ Len(written') = Len(written) + 1
              /\ SubSeq(written', 1, Len(written)) = written
              /\ written'[Len(written')].kind = "chunk"
              /\ written'[Len(written')].Content =
                     (IF IsPrefixOf(lastResponseText, text)
                      THEN SubSeq(text, Len(lastResponseText) + 1, Len(text))
                      ELSE text)
              /\ lastResponseText' = text]_vars

C37_Witness ==
    /\ call = "stream"
    /\ hpc = "loop"
    /\ Len(written) = 3
    /\ [j \in 1..3 |-> written[j].Content] = <<"Hello", "", "Hel">>
    /\ lastResponseText = "Hel"

----------------------------------------------------------------------------
(* Text frames of aliTTSHandler *)

\* a step of the read loop that read a text message
TextRead ==
    /\ call = "tts" /\ tpc = "read"
    /\ Len(readLog') = Len(readLog) + 1
    /\ readLog'[Len(readLog')].messageType = "TextMessage"

\* the message some read step has read is a task-finished message
FinishedRead == \E k \in 1..Len(readLog) : IsFinished(readLog[k])

\* C38: reading a text message that is not JSON, or whose event is not
\* "task-finished", writes nothing to the client, leaves the usage and the
\* result as they were and leaves the handler at the read of the next
\* message; a task-finished message is the last message read, the handler
\* has returned, and nothing is read or written afterwards.
C38_TextFrames ==
    /\ [][(TextRead /\ (\/ readLog'[Len(readLog')].data \in MalformedTexts
                        \/ ~IsFinished(readLog'[Len(readLog')])))
            => /\ UNCHANGED <<audioWrites, ttsUsage, tret, connCloses>>
               /\ tpc' = "read"
               /\ socket' = Tail(socket)]_vars
    /\ []((call = "tts" /\ FinishedRead) =>
            /\ IsFinished(readLog[Len(readLog)])
            /\ \A k \in 1..(Len(readLog) - 1) : ~IsFinished(readLog[k])
            /\ TTSReturned)
    /\ [][(call = "tts" /\ FinishedRead) => UNCHANGED <<readLog, socket, audioWrites>>]_vars

C38_Witness ==
    /\ TTSReturned
    /\ Len(readLog) = 3
    /\ readLog[1].data \in MalformedTexts
    /\ readLog[2].messageType = "TextMessage" /\ ~IsFinished(readLog[2])
    /\ readLog[2].data \notin MalformedTexts
    /\ IsFinished(readLog[3])
    /\ audioWrites = <<>>
    /\ tret.usage.TotalTokens = 12

----------------------------------------------------------------------------
(* Properties of SystemSetting *)

\* C39: a change event on PasswordLoginEnabled while the console shows
\* 'true' sends no update request, changes no input and opens the warning
\* dialog; the input goes from 'true' to 'false' only in a step that handles
\* the successful response to an update request sent by the dialog's confirm
\* button; closing or cancelling the dialog changes no input and sends no
\* request.
C39_PasswordLoginGuarded ==
    /\ [][(call = "console" /\ lastEvent'.kind = "change"
             /\ lastEvent'.name = "PasswordLoginEnabled"
             /\ inputs.PasswordLoginEnabled = "true")
            => /\ requests' = requests
               /\ inputs' = inputs
               /\ showPasswordWarningModal']_vars
    /\ [][(call = "console" /\ inputs.PasswordLoginEnabled = "true"
             /\ inputs'.PasswordLoginEnabled = "false")
            => /\ lastEvent'.kind = "reply" /\ lastEvent'.success
               /\ requests[lastEvent'.request].key = "PasswordLoginEnabled"
               /\ requests[lastEvent'.request].via = "confirm"]_vars
    /\ [][(call = "console" /\ lastEvent'.kind \in {"close", "cancel"})
            => /\ inputs' = inputs
               /\ requests' = requests]_vars

============================================================================
